---------------------------- MODULE Spec2Model ----------------------------
(***************************************************************************)
(* A model of the decision core of the HAES system: the Evolution Engine  *)
(* (feedback log, per-document statistics, pattern learning, persistence),*)
(* the Hybrid Router (complexity analysis, keyword matching, mode         *)
(* decision, confidence, LLM fallback) and the Spec-Driven Task Planner   *)
(* (task extraction, phases, dependency wiring, get_next_tasks).          *)
(*                                                                         *)
(* A query string is modelled as the sequence of its space-separated      *)
(* tokens; the tables below record, for every token of the vocabulary,    *)
(* what Python's str.lower(), re.findall(r'\w+') and the `in` substring   *)
(* test yield on it.  Floating-point scores are kept as integers:         *)
(* complexity in hundredths, confidence in tenths, success rate in        *)
(* percent.                                                               *)
(***************************************************************************)
EXTENDS Integers, Sequences, FiniteSets, TLC

VARIABLES
    feedback_db,        \* EvolutionEngine.feedback_db: list of feedback records
    routing_stats,      \* EvolutionEngine.routing_stats: skill id -> stats
    learned_patterns,   \* EvolutionEngine.learned_patterns: list of patterns
    query_patterns,     \* EvolutionEngine._query_patterns: pattern key -> samples
    dirty,              \* EvolutionEngine._dirty
    auto_save,          \* EvolutionEngine._auto_save
    files,              \* the persisted files: path -> content
    disk_ok,            \* environment: whether a write to the disk succeeds
    ret,                \* the last call and what it returned
    hist,               \* history: the in-memory state an earlier call saw
    query,              \* the request text handed to route() and create_plan()
    llm_client,         \* HybridRouter.llm_client: how the LLM collaborator behaves
    store_results,      \* what skill_store.search returns for the query
    decision,           \* what HybridRouter.route returned or raised
    plan,               \* the ExecutionPlan create_plan returned
    plans,              \* SpecDrivenPlanner._plans: plan id -> plan
    next_tasks,         \* what get_next_tasks() returned for the plan as it stands
    returned,           \* history: the plans create_plan returned, as returned
    last_result,        \* HybridAISystem._last_result
    feedback_store,     \* HybridAISystem.feedback_store: the recorded feedbacks
    memory,             \* HybridAISystem.memory: session, short-term and long-term
    history,            \* HybridAISystem.history
    chat_decision,      \* the RoutingDecision chat() built for the request, or a raise
    peer                \* the EvolutionEngine of a second session on the same directory

evoVars == <<feedback_db, routing_stats, learned_patterns, query_patterns,
             dirty, auto_save, files, disk_ok, ret, hist>>
routerVars == <<query, llm_client, store_results, decision>>
planVars == <<plan, plans, next_tasks, returned>>
sysVars == <<last_result, feedback_store, memory, history, chat_decision>>
peerVars == <<peer>>
vars == <<evoVars, routerVars, planVars, sysVars, peerVars>>

-----------------------------------------------------------------------------
(* Generic helpers: Python lists are sequences, dicts are functions.       *)

Range(s) == {s[i] : i \in DOMAIN s}

EmptyDict == [x \in {} |-> 0]

DictGet(d, k, default) == IF k \in DOMAIN d THEN d[k] ELSE default

DictPut(d, k, v) == [x \in (DOMAIN d) \cup {k} |-> IF x = k THEN v ELSE d[x]]

RECURSIVE SetToSeq(_)
SetToSeq(S) ==
    IF S = {} THEN <<>>
    ELSE LET x == CHOOSE y \in S : TRUE IN <<x>> \o SetToSeq(S \ {x})

RECURSIVE Concat(_)
Concat(ss) == IF ss = <<>> THEN <<>> ELSE Head(ss) \o Concat(Tail(ss))

RECURSIVE SeqsUpTo(_, _)
SeqsUpTo(S, n) ==
    IF n = 0 THEN {<<>>}
    ELSE LET shorter == SeqsUpTo(S, n - 1)
         IN shorter \cup {Append(s, x) : s \in {t \in shorter : Len(t) = n - 1}, x \in S}

-----------------------------------------------------------------------------
(* The vocabulary.  Lower, Words and Sub give str.lower(), the \w+ words   *)
(* of the lowered token and the keywords of the source's keyword lists    *)
(* that are substrings of the lowered token.  No token holds a space, so  *)
(* a keyword without a space is a substring of a query exactly when it is *)
(* a substring of one of the query's tokens.  Korean words are written in  *)
(* Latin letters: hago 하고, geomto 검토, seolgye 설계, guhyeon 구현,       *)
(* teseuteu 테스트, mwoya? 뭐야?, bunseok 분석, paintyuning 파인튜닝,       *)
(* bangbeop 방법, model 모델, munseo 문서, gujo 구조, choesin 최신;     *)
(* frontend, deploy and tuning are the English words.                     *)

Tokens == {"hago", "and", "geomto", "seolgye", "guhyeon", "teseuteu", "mwoya?", "lora",
           "API", "bunseok", "paintyuning", "bangbeop", "model", "munseo", "a",
           "frontend", "deploy", "gujo", "tuning", "choesin"}

Lower(t) == IF t = "API" THEN "api" ELSE t

Words(t) == IF t = "mwoya?" THEN <<"mwoya">> ELSE <<Lower(t)>>

Sub(t) == IF t \in {"mwoya?", "bangbeop", "a"} THEN {} ELSE {Lower(t)}

\* the words of the vocabulary no longer than one character (len(w) > 1 fails)
OneCharWords == {"a"}

\* the number of characters of a token, for len(text)
TokenLen(t) ==
    CASE t \in {"a"} -> 1
      [] t \in {"hago", "geomto", "seolgye", "guhyeon", "bunseok", "bangbeop", "model", "munseo",
                "gujo", "choesin"} -> 2
      [] t \in {"and", "teseuteu", "mwoya?", "API"} -> 3
      [] t \in {"deploy", "tuning"} -> 6
      [] t = "frontend" -> 8
      [] OTHER -> 4

\* kw in query.lower(), for a keyword without a space
HasKw(q, kw) == \E i \in DOMAIN q : kw \in Sub(q[i])

AnyKw(q, kws) == \E kw \in kws : HasKw(q, kw)

\* the skill ids of the model in the order sorted() gives them
SkillOrder == <<"01-model-architecture", "03-fine-tuning", "12-inference-serving", "15-rag",
                "23-frontend-design-architect", "27-web-search">>

SkillRank(s) == CHOOSE i \in DOMAIN SkillOrder : SkillOrder[i] = s

RECURSIVE InsertSkill(_, _)
InsertSkill(sorted, s) ==
    IF sorted = <<>> THEN <<s>>
    ELSE IF SkillRank(s) < SkillRank(Head(sorted)) THEN <<s>> \o sorted
    ELSE <<Head(sorted)>> \o InsertSkill(Tail(sorted), s)

RECURSIVE SortSkills(_)
SortSkills(skills) ==
    IF skills = <<>> THEN <<>>
    ELSE InsertSkill(SortSkills(SubSeq(skills, 1, Len(skills) - 1)), skills[Len(skills)])

-----------------------------------------------------------------------------
(* Evolution Engine: values.                                               *)

LEARNING_THRESHOLD == 5
SUCCESS_SCORE == 4

\* a Python set or list of words; only the field its kind names is used
PySet(S) == [py |-> "set", set |-> S, list |-> <<>>]
PyList(l) == [py |-> "list", set |-> {}, list |-> l]

\* what a call returned: the operation, its path argument, the value
Returned(op, arg, val) == [op |-> op, arg |-> arg, val |-> val]

\* the four tables clear() empties and save()/load() persist
Mem == <<feedback_db, routing_stats, learned_patterns, query_patterns>>

EmptyMem == <<<<>>, EmptyDict, <<>>, EmptyDict>>

HistNone == [phase |-> "none", mem |-> EmptyMem]

STOPWORDS == {"eul", "reul", "i", "ga", "eun", "neun", "e", "ui", "ro", "hae", "haejwo",
              "allyeojwo", "bangbeop", "mwo"}

ExtractKeywords(q) ==
    LET words == Range(Concat([i \in DOMAIN q |-> Words(q[i])]))
    IN {w \in words : w \notin OneCharWords /\ w \notin STOPWORDS}

PatternKey(skills) == SortSkills(skills)

IsSuccess_above(score) == score > SUCCESS_SCORE

IsSuccess(score) == score >= SUCCESS_SCORE

NewStats == [total |-> 0, success |-> 0, scores |-> <<>>, modes |-> EmptyDict]

RECURSIVE UpdateStatsFrom(_, _, _)
UpdateStatsFrom(stats, record, i) ==
    IF i > Len(record.skills_used) THEN stats
    ELSE LET skill_id == record.skills_used[i]
             old == DictGet(stats, skill_id, NewStats)
             new == [total |-> old.total + 1,
                     success |-> old.success + (IF IsSuccess(record.score) THEN 1 ELSE 0),
                     scores |-> Append(old.scores, record.score),
                     modes |-> DictPut(old.modes, record.mode,
                                       DictGet(old.modes, record.mode, 0) + 1)]
         IN UpdateStatsFrom(DictPut(stats, skill_id, new), record, i + 1)

UpdateRoutingStats(stats, record) == UpdateStatsFrom(stats, record, 1)

\* the index of the first learned pattern with this key, 0 when there is none
FindPattern(patterns, key) ==
    IF \E i \in DOMAIN patterns : patterns[i].pattern_key = key
    THEN CHOOSE i \in DOMAIN patterns :
            /\ patterns[i].pattern_key = key
            /\ \A j \in 1..(i - 1) : patterns[j].pattern_key # key
    ELSE 0

SuccessCount_above(scores) == Cardinality({i \in DOMAIN scores : scores[i] > SUCCESS_SCORE})

SuccessCount(scores) == Cardinality({i \in DOMAIN scores : scores[i] >= SUCCESS_SCORE})

\* success_rate >= 0.8, with success_rate = success_count / len(all_scores)
RateReached(success_count, n) == 10 * success_count >= 8 * n

CreateLearnedPattern(patterns, pending, pattern_key, skills, mode) ==
    LET samples == pending[pattern_key]
        all_keywords == UNION {samples[i].keywords.set : i \in DOMAIN samples}
        all_scores == [i \in DOMAIN samples |-> samples[i].score]
        agents == Concat([i \in DOMAIN samples |-> samples[i].agents])
        success_count == SuccessCount(all_scores)
    IN IF RateReached(success_count, Len(all_scores))
       THEN Append(patterns,
                   [pattern_key |-> pattern_key,
                    skills |-> skills,
                    mode |-> mode,
                    agents |-> SetToSeq(Range(agents)),
                    query_keywords |-> PySet(all_keywords),
                    sample_count |-> Len(samples),
                    success_rate |-> (100 * success_count) \div Len(all_scores),
                    success_scores |-> all_scores])
       ELSE patterns

ThresholdReached_early(n) == n >= LEARNING_THRESHOLD - 1

ThresholdReached(n) == n >= LEARNING_THRESHOLD

LearnSuccessPattern(patterns, pending, record) ==
    LET query_keywords == ExtractKeywords(record.query)
        pattern_key == PatternKey(record.skills_used)
        idx == FindPattern(patterns, pattern_key)
    IN IF idx > 0
       THEN [learned_patterns |->
                [patterns EXCEPT ![idx] =
                    [@ EXCEPT !.sample_count = @ + 1,
                              !.query_keywords = [@ EXCEPT !.set = @ \cup query_keywords],
                              !.success_scores = Append(@, record.score)]],
             query_patterns |-> pending]
       ELSE LET sample == [query |-> record.query,
                           keywords |-> PySet(query_keywords),
                           score |-> record.score,
                           mode |-> record.mode,
                           agents |-> record.agents_used]
                pending1 == DictPut(pending, pattern_key,
                                    Append(DictGet(pending, pattern_key, <<>>), sample))
            IN [learned_patterns |->
                    IF ThresholdReached(Len(pending1[pattern_key]))
                    THEN CreateLearnedPattern(patterns, pending1, pattern_key,
                                              record.skills_used, record.mode)
                    ELSE patterns,
                query_patterns |-> pending1]

\* a float of the hint computation, kept exact as the fraction num / den
Frac(num, den) == [num |-> num, den |-> den]

Better_orEqual(a, b) == a.num * b.den >= b.num * a.den

\* a > b
Better(a, b) == a.num * b.den > b.num * a.den

ZeroHint == [confidence |-> Frac(0, 1), suggested_skills |-> <<>>,
             suggested_mode |-> "None", suggested_agents |-> <<>>]

\* similarity * pattern["success_rate"], for a pattern sharing a keyword
WeightedScore(pattern, query_keywords) ==
    LET pattern_keywords == pattern.query_keywords.set
    IN Frac(Cardinality(query_keywords \cap pattern_keywords) * pattern.success_rate,
            Cardinality(query_keywords \cup pattern_keywords) * 100)

\* the loop over learned_patterns from pattern i on; best_match is an index,
\* 0 for None
RECURSIVE BestMatchFrom(_, _, _, _)
BestMatchFrom(patterns, query_keywords, i, best) ==
    IF i > Len(patterns) THEN best
    ELSE LET pattern_keywords == patterns[i].query_keywords.set
             weighted_score == WeightedScore(patterns[i], query_keywords)
         IN IF pattern_keywords = {} \/ query_keywords \cap pattern_keywords = {}
            THEN BestMatchFrom(patterns, query_keywords, i + 1, best)
            ELSE IF Better(weighted_score, best.best_score)
            THEN BestMatchFrom(patterns, query_keywords, i + 1,
                               [best_match |-> i, best_score |-> weighted_score])
            ELSE BestMatchFrom(patterns, query_keywords, i + 1, best)

\* min(best_score * 1.5, 0.95)
HintConfidence(best_score) ==
    LET scaled == Frac(3 * best_score.num, 2 * best_score.den)
    IN IF Better(scaled, Frac(95, 100)) THEN Frac(95, 100) ELSE scaled

Hints(patterns, q) ==
    IF patterns = <<>> THEN ZeroHint
    ELSE LET best == BestMatchFrom(patterns, ExtractKeywords(q), 1,
                                   [best_match |-> 0, best_score |-> Frac(0, 1)])
         IN IF best.best_match > 0 /\ Better(best.best_score, Frac(3, 10))
            THEN [confidence |-> HintConfidence(best.best_score),
                  suggested_skills |-> patterns[best.best_match].skills,
                  suggested_mode |-> patterns[best.best_match].mode,
                  suggested_agents |-> patterns[best.best_match].agents,
                  matched_pattern |-> patterns[best.best_match].pattern_key]
            ELSE ZeroHint

-----------------------------------------------------------------------------
(* Evolution Engine: persistence.                                          *)

\* what stands for a list entry that is no record (a number, a string)
JunkPattern == [pattern_key |-> <<>>, skills |-> <<>>, mode |-> "", agents |-> <<>>,
                query_keywords |-> PyList(<<>>), sample_count |-> 0,
                success_rate |-> 0, success_scores |-> <<>>]

SerializeKeywords(k) == IF k.py = "set" THEN PyList(SetToSeq(k.set)) ELSE k

SerializeState(db, stats, patterns, pending) ==
    [feedback_db |-> db,
     routing_stats |-> stats,
     learned_patterns |->
        [i \in DOMAIN patterns |->
            [obj |-> TRUE,
             pattern |-> [patterns[i] EXCEPT !.query_keywords = SerializeKeywords(@)]]],
     query_patterns |->
        [key \in DOMAIN pending |->
            [i \in DOMAIN pending[key] |->
                [pending[key][i] EXCEPT !.keywords = SerializeKeywords(@)]]]]

KeepKeywords(k) == k

DeserializeKeywords(k) == IF k.py = "list" THEN PySet(Range(k.list)) ELSE k

\* the entries of the list before its first non-record entry
RECURSIVE RecordPrefix(_)
RecordPrefix(entries) ==
    IF entries = <<>> \/ ~Head(entries).obj THEN <<>>
    ELSE <<Head(entries)>> \o RecordPrefix(Tail(entries))

EmptyData == SerializeState(<<>>, EmptyDict, <<>>, EmptyDict)

\* the persisted files: evolution_state.json and one timestamped backup
Paths == {"state", "snapshot"}

MissingFile == [kind |-> "missing", data |-> EmptyData]

JsonFile(data) == [kind |-> "json", data |-> data]

\* _deserialize_state up to the first entry whose copy() raises
DeserializeState(data) ==
    LET good == RecordPrefix(data.learned_patterns)
    IN [raised |-> Len(good) < Len(data.learned_patterns),
        feedback_db |-> data.feedback_db,
        routing_stats |-> data.routing_stats,
        learned_patterns |->
            [i \in DOMAIN good |->
                [good[i].pattern EXCEPT !.query_keywords = DeserializeKeywords(@)]],
        query_patterns |->
            [key \in DOMAIN data.query_patterns |->
                [i \in DOMAIN data.query_patterns[key] |->
                    [data.query_patterns[key][i] EXCEPT
                        !.keywords = DeserializeKeywords(@)]]]]

\* the file save(path) writes for these tables
Saved(fs, path, db, stats, patterns, pending) ==
    [fs EXCEPT ![path] = JsonFile(SerializeState(db, stats, patterns, pending))]

-----------------------------------------------------------------------------
(* Evolution Engine: operations.                                           *)

InitTables ==
    /\ feedback_db = <<>>
    /\ routing_stats = EmptyDict
    /\ learned_patterns = <<>>
    /\ query_patterns = EmptyDict

InitEvolution ==
    /\ InitTables
    /\ dirty = FALSE
    /\ auto_save = TRUE
    /\ files = [p \in Paths |-> MissingFile]
    /\ disk_ok = TRUE
    /\ ret = Returned("init", "", "None")
    /\ hist = HistNone

\* the early return with the review suggestion
ReturnsEarly(score) == score <= 2

RecordFeedback(result, feedback, score) ==
    LET record == [query |-> result.query,
                   mode |-> result.mode,
                   skills_used |-> result.skills_used,
                   agents_used |-> result.agents_used,
                   feedback |-> feedback,
                   score |-> score]
        db1 == Append(feedback_db, record)
        stats1 == UpdateRoutingStats(routing_stats, record)
        learned == IF score >= SUCCESS_SCORE
                   THEN LearnSuccessPattern(learned_patterns, query_patterns, record)
                   ELSE [learned_patterns |-> learned_patterns,
                         query_patterns |-> query_patterns]
    IN /\ feedback_db' = db1
       /\ routing_stats' = stats1
       /\ learned_patterns' = learned.learned_patterns
       /\ query_patterns' = learned.query_patterns
       /\ IF ReturnsEarly(score)
          THEN /\ ret' = Returned("record_feedback", "", "review")
               /\ UNCHANGED <<dirty, files>>
          ELSE /\ ret' = Returned("record_feedback", "", "None")
               /\ IF auto_save /\ disk_ok
                  THEN /\ files' = Saved(files, "state", db1, stats1,
                                         learned.learned_patterns, learned.query_patterns)
                       /\ dirty' = FALSE
                  ELSE /\ dirty' = TRUE
                       /\ UNCHANGED files
       /\ hist' = HistNone
       /\ UNCHANGED <<auto_save, disk_ok>>

\* history: the tables and the dirty flag a failing save() or backup() saw
WriteFailed == [phase |-> "failed", mem |-> Mem, dirty |-> dirty]

\* the environment: the disk starts or stops taking writes
SetDisk(ok) ==
    /\ disk_ok' = ok
    /\ ret' = Returned("disk", "", IF ok THEN "ok" ELSE "failing")
    /\ hist' = HistNone
    /\ UNCHANGED <<feedback_db, routing_stats, learned_patterns, query_patterns,
                   dirty, auto_save, files>>

SetAutoSave(enabled) ==
    /\ auto_save' = enabled
    /\ ret' = Returned("set_auto_save", "", "None")
    /\ UNCHANGED <<feedback_db, routing_stats, learned_patterns, query_patterns,
                   dirty, files, disk_ok, hist>>

Save(path) ==
    /\ IF disk_ok
       THEN /\ files' = Saved(files, path, feedback_db, routing_stats,
                              learned_patterns, query_patterns)
            /\ dirty' = FALSE
            /\ ret' = Returned("save", path, "True")
       ELSE /\ ret' = Returned("save", path, "False")
            /\ UNCHANGED <<files, dirty>>
    /\ hist' = IF ~disk_ok THEN WriteFailed
               ELSE IF path = "snapshot" THEN [phase |-> "saved", mem |-> Mem]
               ELSE HistNone
    /\ UNCHANGED <<feedback_db, routing_stats, learned_patterns, query_patterns,
                   auto_save, disk_ok>>

\* backup(): mkdir outside any try, then save(backup_file); on a failing disk
\* either mkdir raises or, the directory being there, the write in save() fails
Backup ==
    IF disk_ok
    THEN /\ files' = Saved(files, "snapshot", feedback_db, routing_stats,
                           learned_patterns, query_patterns)
         /\ dirty' = FALSE
         /\ ret' = Returned("backup", "snapshot", "path")
         /\ hist' = [phase |-> "saved", mem |-> Mem]
         /\ UNCHANGED <<feedback_db, routing_stats, learned_patterns, query_patterns,
                        auto_save, disk_ok>>
    ELSE /\ \E outcome \in {"raised", "None"} : ret' = Returned("backup", "snapshot", outcome)
         /\ hist' = WriteFailed
         /\ UNCHANGED <<feedback_db, routing_stats, learned_patterns, query_patterns,
                        dirty, auto_save, files, disk_ok>>

Clear ==
    /\ feedback_db' = <<>>
    /\ routing_stats' = EmptyDict
    /\ learned_patterns' = <<>>
    /\ query_patterns' = EmptyDict
    /\ ret' = Returned("clear", "", "None")
    /\ hist' = IF hist.phase = "saved"
               THEN [phase |-> "cleared", mem |-> hist.mem]
               ELSE HistNone
    /\ UNCHANGED <<dirty, auto_save, files, disk_ok>>

\* json.load raises on an unparseable file, data.get on a reply that is no object
Unreadable(f) == f.kind \in {"garbage", "not_object"}

Load(path) ==
    LET f == files[path]
        d == DeserializeState(f.data)
    IN /\ IF f.kind = "missing" \/ Unreadable(f)
          THEN /\ ret' = Returned("load", path, "False")
               /\ UNCHANGED <<feedback_db, routing_stats, learned_patterns,
                              query_patterns, dirty>>
          ELSE /\ feedback_db' = d.feedback_db
               /\ routing_stats' = d.routing_stats
               /\ learned_patterns' = d.learned_patterns
               /\ query_patterns' = IF d.raised THEN query_patterns ELSE d.query_patterns
               /\ dirty' = IF d.raised THEN dirty ELSE FALSE
               /\ ret' = Returned("load", path, IF d.raised THEN "False" ELSE "True")
       /\ hist' = IF hist.phase = "cleared" /\ path = "snapshot"
                  THEN [phase |-> "restored", mem |-> hist.mem]
                  ELSE [phase |-> "loaded", mem |-> Mem]
       /\ UNCHANGED <<auto_save, files, disk_ok>>

RestoreFromBackup == Load("snapshot")

\* the environment damages a persisted file
DamageFile(path, how) ==
    /\ files[path].kind = "json"
    /\ \A i \in DOMAIN files[path].data.learned_patterns :
            files[path].data.learned_patterns[i].obj
    /\ files' = [files EXCEPT ![path] =
                    CASE how = "delete" -> MissingFile
                      [] how = "truncate" -> [kind |-> "garbage", data |-> EmptyData]
                      [] how = "not_object" -> [kind |-> "not_object", data |-> EmptyData]
                      [] OTHER ->
                           JsonFile([@.data EXCEPT !.learned_patterns =
                                        Append(@, [obj |-> FALSE, pattern |-> JunkPattern])])]
    /\ ret' = Returned("damage", path, how)
    /\ hist' = HistNone
    /\ UNCHANGED <<feedback_db, routing_stats, learned_patterns, query_patterns,
                   dirty, auto_save, disk_ok>>

GetRoutingHints(q) ==
    /\ ret' = Returned("get_routing_hints", q, Hints(learned_patterns, q))
    /\ hist' = [phase |-> "hints", mem |-> Mem]
    /\ UNCHANGED <<feedback_db, routing_stats, learned_patterns, query_patterns,
                   dirty, auto_save, files, disk_ok>>

-----------------------------------------------------------------------------
(* Hybrid Router.  Scores are in hundredths, confidences in tenths.        *)

\* the keyword lists, Korean keywords in Latin letters
COMPLEXITY_INDICATORS ==
    [implementation |-> {"guhyeon", "implement", "mandeureo", "jakseong", "build",
                         "create", "gaebal", "develop", "kodeu"},
     parallel       |-> {"geurigo", "hago", "and", "ttohan", "dongsie", "byeongnyeollo"},
     collaboration  |-> {"geomto", "review", "hwagin", "validate", "hue", "daeume", "then"},
     design         |-> {"seolgye", "design", "akitekcheo", "architecture", "gujo"}]

LLM_ROUTING_THRESHOLD == 5

ExecutionModes == {"skill_only", "skill_agent", "parallel", "multi_agent"}

Min(a, b) == IF a < b THEN a ELSE b

\* sum(1 for kw in keywords if kw in query_lower)
Count(q, kws) == Cardinality({kw \in kws : HasKw(q, kw)})

IsSimple_never(q) == FALSE

\* SIMPLE_PATTERNS: of the vocabulary only "mwoya?" at the end of the query matches
IsSimple(q) == q # <<>> /\ q[Len(q)] = "mwoya?"

\* query_lower.count(" and ") from token i on: an "and" between two other
\* tokens, and the space it ends with is not the start of the next match
RECURSIVE AndCount(_, _)
AndCount(q, i) ==
    IF i >= Len(q) THEN 0
    ELSE IF q[i] = "and" THEN 1 + AndCount(q, i + 2)
    ELSE AndCount(q, i + 1)

\* count("hago") + count("geurigo") + count(" and ")
ParallelCount(q) == Cardinality({i \in DOMAIN q : q[i] = "hago"}) + AndCount(q, 2)

AnalyzeComplexity(q) ==
    LET indicators == [c \in DOMAIN COMPLEXITY_INDICATORS |->
                          Count(q, COMPLEXITY_INDICATORS[c])]
        counted == 15 * (indicators.implementation + indicators.parallel
                         + indicators.collaboration + indicators.design)
        is_parallel == ParallelCount(q) >= 2
        is_collaborative == indicators.collaboration >= 1 /\ indicators.design > 0
        total == counted + (IF indicators.implementation > 0 THEN 20 ELSE 0)
                         + (IF is_parallel THEN 30 ELSE 0)
                         + (IF is_collaborative THEN 30 ELSE 0)
        adjusted == IF IsSimple(q) /\ ~is_parallel /\ ~is_collaborative
                    THEN Min(total, 25) ELSE total
    IN [score |-> Min(adjusted, 100),
        is_parallel |-> is_parallel,
        is_collaborative |-> is_collaborative,
        indicators |-> indicators]

\* KEYWORD_MAP, the rows and keywords a query of the vocabulary can hit
KEYWORD_MAP ==
    <<[skill_id |-> "01-model-architecture", keywords |-> {"model"}],
      [skill_id |-> "03-fine-tuning", keywords |-> {"fine-tuning", "lora", "paintyuning"}],
      [skill_id |-> "12-inference-serving", keywords |-> {"deploy"}],
      [skill_id |-> "23-frontend-design-architect", keywords |-> {"frontend"}]>>

QueryWords(q) == Range(Concat([i \in DOMAIN q |-> Words(q[i])]))

\* set(re.findall(r'\w+', keyword_lower))
KeywordWords(kw) == IF kw = "fine-tuning" THEN {"fine", "tuning"} ELSE {kw}

\* one keyword's score: 10 if it is a substring of the query, else 3 for each
\* of its words among the query's words
KeywordScore(q, kw) ==
    IF HasKw(q, kw) THEN 10 ELSE 3 * Cardinality(QueryWords(q) \cap KeywordWords(kw))

RECURSIVE SumScores(_, _)
SumScores(q, kws) ==
    IF kws = {} THEN 0
    ELSE LET kw == CHOOSE k \in kws : TRUE
         IN KeywordScore(q, kw) + SumScores(q, kws \ {kw})

\* sorted(..., key=score, reverse=True): stable, equal scores keep their order
RECURSIVE InsertByScore(_, _)
InsertByScore(sorted, pair) ==
    IF sorted = <<>> THEN <<pair>>
    ELSE IF pair.score > Head(sorted).score THEN <<pair>> \o sorted
    ELSE <<Head(sorted)>> \o InsertByScore(Tail(sorted), pair)

RECURSIVE SkillScores(_, _)
SkillScores(q, n) ==
    IF n = 0 THEN <<>>
    ELSE LET score == SumScores(q, KEYWORD_MAP[n].keywords)
             before == SkillScores(q, n - 1)
         IN IF score > 0
            THEN InsertByScore(before, [skill_id |-> KEYWORD_MAP[n].skill_id, score |-> score])
            ELSE before

Match_whole(q, max_results) == SkillScores(q, Len(KEYWORD_MAP))

\* sorted_skills[:max_results]; a negative max_results counts from the end
Match(q, max_results) ==
    LET sorted_skills == SkillScores(q, Len(KEYWORD_MAP))
        stop == IF max_results < 0 THEN Len(sorted_skills) + max_results
                ELSE Min(max_results, Len(sorted_skills))
    IN SubSeq(sorted_skills, 1, stop)

MatchSkillIds(q, max_results) ==
    LET matches == Match(q, max_results)
    IN [i \in DOMAIN matches |-> matches[i].skill_id]

\* agent_keywords of _select_agents_for_parallel, in dict order
AGENT_KEYWORDS ==
    <<[agent |-> "backend-developer", keywords |-> {"api", "backend", "seobeo", "deiteobeiseu"}],
      [agent |-> "frontend-developer", keywords |-> {"ui", "frontend", "peuronteu"}],
      [agent |-> "qa-expert", keywords |-> {"test", "teseuteu", "qa", "geomjeung"}],
      [agent |-> "tech-writer", keywords |-> {"munseo", "doc", "documentation"}],
      [agent |-> "devops-engineer", keywords |-> {"baepo", "deploy", "ci/cd"}]>>

RECURSIVE AgentsHit(_, _)
AgentsHit(q, n) ==
    IF n = 0 THEN <<>>
    ELSE AgentsHit(q, n - 1) \o (IF AnyKw(q, AGENT_KEYWORDS[n].keywords)
                                 THEN <<AGENT_KEYWORDS[n].agent>> ELSE <<>>)

SelectAgentsForParallel_uncut(q) ==
    LET hit == AgentsHit(q, Len(AGENT_KEYWORDS))
    IN IF Len(hit) < 2 THEN <<"backend-developer", "qa-expert", "tech-writer">> ELSE hit

SelectAgentsForParallel(q) ==
    LET hit == AgentsHit(q, Len(AGENT_KEYWORDS))
        agents == IF Len(hit) < 2 THEN <<"backend-developer", "qa-expert", "tech-writer">>
                  ELSE hit
    IN SubSeq(agents, 1, Min(4, Len(agents)))

SelectAgentsForCollaboration(q) ==
    IF HasKw(q, "seolgye") /\ HasKw(q, "geomto") THEN <<"system-architect", "security-reviewer">>
    ELSE IF HasKw(q, "guhyeon") /\ HasKw(q, "teseuteu") THEN <<"backend-developer", "qa-expert">>
    ELSE <<"system-architect", "backend-developer">>

SelectPrimaryAgent(q) ==
    IF AnyKw(q, {"api", "backend", "seobeo", "seobing"}) THEN <<"backend-developer">>
    ELSE IF AnyKw(q, {"ui", "frontend", "peuronteu"}) THEN <<"frontend-developer">>
    ELSE IF AnyKw(q, {"ml", "ai", "model", "hakseup"}) THEN <<"ml-engineer">>
    ELSE <<"backend-developer">>

DecideMode_collaborationFirst(q, complexity, skills) ==
    IF complexity.is_collaborative
    THEN [mode |-> "multi_agent", agents |-> SelectAgentsForCollaboration(q), reason |-> "collaboration"]
    ELSE IF complexity.is_parallel
    THEN [mode |-> "parallel", agents |-> SelectAgentsForParallel(q), reason |-> "parallel"]
    ELSE IF complexity.score >= 30
    THEN [mode |-> "skill_agent", agents |-> SelectPrimaryAgent(q), reason |-> "implementation"]
    ELSE [mode |-> "skill_only", agents |-> <<>>, reason |-> "lookup"]

DecideMode(q, complexity, skills) ==
    IF complexity.is_parallel
    THEN [mode |-> "parallel", agents |-> SelectAgentsForParallel(q), reason |-> "parallel"]
    ELSE IF complexity.is_collaborative
    THEN [mode |-> "multi_agent", agents |-> SelectAgentsForCollaboration(q), reason |-> "collaboration"]
    ELSE IF complexity.score >= 30
    THEN [mode |-> "skill_agent", agents |-> SelectPrimaryAgent(q), reason |-> "implementation"]
    ELSE [mode |-> "skill_only", agents |-> <<>>, reason |-> "lookup"]

CalculateConfidence_noBase(skills, complexity) ==
    Min((IF skills # <<>> THEN 2 ELSE 0)
        + (IF \E c \in DOMAIN complexity.indicators : complexity.indicators[c] > 0 THEN 1 ELSE 0)
        + (IF complexity.is_parallel \/ complexity.is_collaborative THEN 1 ELSE 0), 10)

CalculateConfidence_lowBase(skills, complexity) ==
    Min(4 + (IF skills # <<>> THEN 2 ELSE 0)
          + (IF \E c \in DOMAIN complexity.indicators : complexity.indicators[c] > 0 THEN 1 ELSE 0)
          + (IF complexity.is_parallel \/ complexity.is_collaborative THEN 1 ELSE 0), 10)

CalculateConfidence(skills, complexity) ==
    Min(5 + (IF skills # <<>> THEN 2 ELSE 0)
          + (IF \E c \in DOMAIN complexity.indicators : complexity.indicators[c] > 0 THEN 1 ELSE 0)
          + (IF complexity.is_parallel \/ complexity.is_collaborative THEN 1 ELSE 0), 10)

\* the behaviours of the LLM routing collaborator, and what _llm_route returns
LLMBehaviours == {"absent", "raising", "unparseable", "bad_mode", "ok"}

LLMRoute(behaviour) ==
    CASE behaviour \in {"absent", "raising"} ->
            [none |-> TRUE, mode |-> "", skills |-> <<>>, reason |-> ""]
      [] behaviour = "unparseable" ->
            [none |-> FALSE, mode |-> "skill_only", skills |-> <<>>, reason |-> "Parse error"]
      [] behaviour = "bad_mode" ->
            [none |-> FALSE, mode |-> "hybrid", skills |-> <<"15-rag">>, reason |-> "mixed"]
      [] OTHER ->
            [none |-> FALSE, mode |-> "multi_agent", skills |-> <<>>, reason |-> "sequential"]

UseLLM_atThreshold(confidence) ==
    confidence <= LLM_ROUTING_THRESHOLD /\ llm_client # "absent"

\* confidence < self.LLM_ROUTING_THRESHOLD and self.llm_client
UseLLM(confidence) ==
    confidence < LLM_ROUTING_THRESHOLD /\ llm_client # "absent"

\* the decision steps 1-4 of route() reach without the LLM
KeywordDecision(q, store) ==
    LET complexity == AnalyzeComplexity(q)
        keyword_skills == MatchSkillIds(q, 3)
        matched_skills == IF keyword_skills = <<>> THEN store ELSE keyword_skills
        decided == DecideMode(q, complexity, matched_skills)
    IN [called |-> TRUE, raised |-> FALSE, llm_invoked |-> FALSE, replaced |-> FALSE,
        mode |-> decided.mode, skills |-> matched_skills, agents |-> decided.agents,
        reason |-> decided.reason,
        confidence |-> CalculateConfidence(matched_skills, complexity),
        complexity |-> complexity]

Route ==
    LET keyword == KeywordDecision(query, store_results)
        llm_decision == LLMRoute(llm_client)
    IN /\ decision' =
            IF UseLLM(keyword.confidence)
            THEN IF ~llm_decision.none /\ llm_decision.reason # "Parse error"
                 THEN IF llm_decision.mode \in ExecutionModes
                      THEN [keyword EXCEPT
                              !.llm_invoked = TRUE, !.replaced = TRUE,
                              !.mode = llm_decision.mode,
                              !.skills = IF llm_decision.skills # <<>>
                                         THEN llm_decision.skills ELSE keyword.skills,
                              !.reason = "llm",
                              !.confidence = 8]
                      ELSE [keyword EXCEPT !.llm_invoked = TRUE, !.raised = TRUE]
                 ELSE [keyword EXCEPT !.llm_invoked = TRUE]
            ELSE keyword
       /\ UNCHANGED <<query, llm_client, store_results>>

-----------------------------------------------------------------------------
(* Spec-Driven Planner.  Task and phase ids are the numbers n of "task-n" *)
(* and "phase-n"; complexity is in hundredths.                             *)

THRESHOLDS == [simple_query |-> 20, skill_lookup |-> 35, single_task |-> 50,
               multi_task |-> 70, spec_driven |-> 100]

\* TASK_KEYWORDS in dict order
TASK_KEYWORDS ==
    <<[category |-> "investigation",
       keywords |-> {"bunseok", "josa", "hwagin", "geomto", "salpyeo", "analyze"}],
      [category |-> "implementation",
       keywords |-> {"guhyeon", "mandeul", "jakseong", "gaebal", "build", "create"}],
      [category |-> "refactoring",
       keywords |-> {"ripaek", "gaeseon", "choejeokhwa", "sujeong", "refactor"}],
      [category |-> "testing",
       keywords |-> {"teseuteu", "geomjeung", "hwagin", "test", "verify"}],
      [category |-> "documentation",
       keywords |-> {"munseo", "doc", "README", "seolmyeong"}],
      [category |-> "research", keywords |-> {"yeongu", "chaja", "search", "research"}],
      [category |-> "decision", keywords |-> {"seontaek", "gyeoljeong", "decide", "choose"}]>>

SelectWorkflow_flagsFirst(complexity, is_parallel, is_collaborative) ==
    IF is_parallel THEN "parallel"
    ELSE IF is_collaborative THEN "sequential"
    ELSE IF complexity >= THRESHOLDS.multi_task THEN "spec_driven"
    ELSE IF complexity >= THRESHOLDS.single_task THEN "sequential"
    ELSE IF complexity >= THRESHOLDS.skill_lookup THEN "single_task"
    ELSE IF complexity >= THRESHOLDS.simple_query THEN "skill_lookup"
    ELSE "simple_query"

SelectWorkflow(complexity, is_parallel, is_collaborative) ==
    IF is_parallel /\ complexity >= 50 THEN "parallel"
    ELSE IF is_collaborative /\ complexity >= 50 THEN "sequential"
    ELSE IF complexity >= THRESHOLDS.multi_task THEN "spec_driven"
    ELSE IF complexity >= THRESHOLDS.single_task THEN "sequential"
    ELSE IF complexity >= THRESHOLDS.skill_lookup THEN "single_task"
    ELSE IF complexity >= THRESHOLDS.simple_query THEN "skill_lookup"
    ELSE "simple_query"

\* segment.split("hago") and strip: the runs of tokens between "hago" tokens
RECURSIVE SplitHago(_, _)
SplitHago(q, current) ==
    IF q = <<>> THEN (IF current = <<>> THEN <<>> ELSE <<current>>)
    ELSE IF Head(q) = "hago"
         THEN (IF current = <<>> THEN <<>> ELSE <<current>>) \o SplitHago(Tail(q), <<>>)
         ELSE SplitHago(Tail(q), Append(current, Head(q)))

\* segment.split(" and "): cut at the first "and" that has a token on each side
RECURSIVE SplitAnd(_)
SplitAnd(segment) ==
    LET cuts == {i \in 2..(Len(segment) - 1) : segment[i] = "and"}
    IN IF cuts = {} THEN <<segment>>
       ELSE LET i == CHOOSE c \in cuts : \A d \in cuts : c <= d
            IN <<SubSeq(segment, 1, i - 1)>> \o SplitAnd(SubSeq(segment, i + 1, Len(segment)))

\* the delimiters in list order; no token holds one of the others
Segments(q) ==
    LET by_hago == SplitHago(q, <<>>)
    IN Concat([i \in DOMAIN by_hago |-> SplitAnd(by_hago[i])])

RECURSIVE CategoryFrom(_, _)
CategoryFrom(text, n) ==
    IF n > Len(TASK_KEYWORDS) THEN "implementation"
    ELSE IF AnyKw(text, TASK_KEYWORDS[n].keywords) THEN TASK_KEYWORDS[n].category
    ELSE CategoryFrom(text, n + 1)

DetectCategory(text) == CategoryFrom(text, 1)

RECURSIVE TextLen(_)
TextLen(text) ==
    IF text = <<>> THEN 0
    ELSE TokenLen(Head(text)) + (IF Len(text) > 1 THEN 1 + TextLen(Tail(text)) ELSE 0)

EstimateTime(text, category) ==
    LET base == CASE category = "investigation" -> 10
                  [] category = "implementation" -> 30
                  [] category = "refactoring" -> 20
                  [] category = "testing" -> 15
                  [] category = "documentation" -> 15
                  [] category = "research" -> 20
                  [] category = "decision" -> 5
                  [] OTHER -> 15
    IN IF TextLen(text) > 100 THEN (base * 3) \div 2 ELSE base

\* s.split("-"), for the skill ids the planner is handed
SkillParts(s) ==
    CASE s = "03-fine-tuning" -> {"03", "fine", "tuning"}
      [] s = "12-inference-serving" -> {"12", "inference", "serving"}
      [] s = "15-rag" -> {"15", "rag"}
      [] s = "23-frontend-design-architect" -> {"23", "frontend", "design", "architect"}
      [] OTHER -> {s}

\* [s for s in skills if any(kw in segment.lower() for kw in s.split("-"))]
SkillsIn(segment, skills) ==
    LET Named(skill) == AnyKw(segment, SkillParts(skill))
    IN SelectSeq(skills, Named)

ExtractTasks(q, skills) ==
    LET segments == Segments(q)
    IN IF segments = <<>>
       THEN <<[id |-> 1, description |-> q, category |-> "investigation",
               status |-> "pending", agent_id |-> "None", skill_ids |-> skills,
               blocked_by |-> <<>>, estimated_minutes |-> 15, priority |-> 1]>>
       ELSE [i \in DOMAIN segments |->
                LET category == DetectCategory(segments[i])
                    hit == SkillsIn(segments[i], skills)
                IN [id |-> i, description |-> segments[i], category |-> category,
                    status |-> "pending", agent_id |-> "None",
                    skill_ids |-> IF hit # <<>> THEN hit
                                  ELSE SubSeq(skills, 1, Min(1, Len(skills))),
                    blocked_by |-> <<>>,
                    estimated_minutes |-> EstimateTime(segments[i], category),
                    priority |-> IF i = 1 THEN 1 ELSE 2]]

FindBestAgent(task, q) ==
    LET by_category == CASE task.category \in {"investigation", "research", "decision"} -> "architect"
                         [] task.category = "testing" -> "qa"
                         [] task.category = "documentation" -> "docs"
                         [] OTHER -> "backend"
        role == IF AnyKw(q, {"frontend", "ui", "peuronteu", "hwamyeon"}) THEN "frontend"
                ELSE IF AnyKw(q, {"ml", "ai", "meosinreoning", "model"}) THEN "data"
                ELSE IF AnyKw(q, {"deploy", "baepo", "ci/cd", "inpeura"}) THEN "devops"
                ELSE by_category
    IN CASE role = "architect" -> "system-architect"
         [] role = "backend" -> "backend-developer"
         [] role = "frontend" -> "frontend-developer"
         [] role = "data" -> "data-analyst"
         [] role = "devops" -> "devops-engineer"
         [] role = "qa" -> "qa-expert"
         [] OTHER -> "tech-writer"

\* _assign_agents: the tasks with their agent_id set
AssignAgents(tasks, q) ==
    [i \in DOMAIN tasks |-> [tasks[i] EXCEPT !.agent_id = FindBestAgent(tasks[i], q)]]

\* ... and the list it returns: each agent once, in order of first use
RECURSIVE Assigned(_)
Assigned(tasks) ==
    IF tasks = <<>> THEN <<>>
    ELSE LET before == Assigned(SubSeq(tasks, 1, Len(tasks) - 1))
             agent == tasks[Len(tasks)].agent_id
         IN IF agent \in Range(before) THEN before ELSE Append(before, agent)

\* [t for t in tasks if t.category in categories]
TasksIn(tasks, categories) ==
    LET InBucket(t) == t.category \in categories
    IN SelectSeq(tasks, InBucket)

SinglePhase(name, tasks) ==
    <<[id |-> 1, name |-> name, tasks |-> tasks, dependencies |-> <<>>]>>

FirstPhaseId(phases) == IF phases # <<>> THEN <<phases[1].id>> ELSE <<>>

\* [phases[-1].id] if phases else []
LastPhaseId(phases) == IF phases # <<>> THEN <<phases[Len(phases)].id>> ELSE <<>>

\* phases.append(Phase(...)) when the bucket is not empty
AppendPhase(phases, name, tasks, dependencies) ==
    IF tasks = <<>> THEN phases
    ELSE Append(phases, [id |-> Len(phases) + 1, name |-> name, tasks |-> tasks,
                         dependencies |-> dependencies])

CreatePhases(tasks, workflow) ==
    IF workflow = "simple_query" THEN SinglePhase("immediate", tasks)
    ELSE IF workflow = "parallel" THEN SinglePhase("parallel", tasks)
    ELSE IF workflow \in {"sequential", "spec_driven"}
    THEN LET p1 == AppendPhase(<<>>, "analysis",
                       TasksIn(tasks, {"investigation", "research", "decision"}), <<>>)
             p2 == AppendPhase(p1, "implementation",
                       TasksIn(tasks, {"implementation", "refactoring"}), LastPhaseId(p1))
             p3 == AppendPhase(p2, "verification",
                       TasksIn(tasks, {"testing", "documentation"}), LastPhaseId(p2))
             placed == UNION {Range(p3[k].tasks) : k \in DOMAIN p3}
             Remaining(t) == t \notin placed
             p4 == AppendPhase(p3, "additional", SelectSeq(tasks, Remaining), <<>>)
         IN IF p4 # <<>> THEN p4 ELSE SinglePhase("run", tasks)
    ELSE SinglePhase("run", tasks)

LastTaskId(phase) == <<phase.tasks[Len(phase.tasks)].id>>

\* prev_task_ids = [t.id for t in phases[i-1].tasks]
PrevTaskIds(phase) == [k \in DOMAIN phase.tasks |-> phase.tasks[k].id]

AnalyzeDependencies(phases) ==
    [i \in DOMAIN phases |->
        IF i > 1 /\ phases[i - 1].tasks # <<>>
        THEN [phases[i] EXCEPT !.tasks =
                [k \in DOMAIN phases[i].tasks |->
                    IF phases[i].tasks[k].blocked_by = <<>>
                    THEN [phases[i].tasks[k] EXCEPT !.blocked_by = PrevTaskIds(phases[i - 1])]
                    ELSE phases[i].tasks[k]]]
        ELSE phases[i]]

RECURSIVE SumMinutes(_)
SumMinutes(tasks) ==
    IF tasks = <<>> THEN 0 ELSE Head(tasks).estimated_minutes + SumMinutes(Tail(tasks))

\* [t for p in phases for t in p.tasks]
AllTasks(phases) == Concat([i \in DOMAIN phases |-> phases[i].tasks])

\* _generate_id: the hash of query[:50] and created_at, taken as the pair
\* itself (queries here are shorter than 50 characters)
\* the first k characters of a token; "a" is the only token of the vocabulary
\* that is the beginning of another one
CutToken(t, k) == [token |-> IF t = "and" /\ k = 1 THEN "a" ELSE t, chars |-> k]

\* text[:n]: the tokens within the first n characters, the last one cut where
\* the n characters end, a final space kept
RECURSIVE Prefix(_, _)
Prefix(text, n) ==
    IF text = <<>> \/ n <= 0 THEN <<>>
    ELSE IF TokenLen(Head(text)) >= n THEN <<CutToken(Head(text), n)>>
    ELSE <<CutToken(Head(text), TokenLen(Head(text)))>>
         \o (IF Tail(text) = <<>> THEN <<>>
             ELSE IF n - TokenLen(Head(text)) = 1 THEN <<[token |-> " ", chars |-> 1]>>
             ELSE Prefix(Tail(text), n - TokenLen(Head(text)) - 1))

ID_PREFIX_CHARS == 50

GenerateId_wholeQuery(q, created_at) == <<Prefix(q, TextLen(q)), created_at>>

\* "plan-" and the MD5 digest of query[:50] + "_" + created_at, its first 8 hex
\* digits; the digest is taken as free of collisions
GenerateId(q, created_at) == <<Prefix(q, ID_PREFIX_CHARS), created_at>>

NewPlan(q, complexity_score, matched_skills, is_parallel, is_collaborative, created_at) ==
    LET workflow == SelectWorkflow(complexity_score, is_parallel, is_collaborative)
        tasks == AssignAgents(ExtractTasks(q, matched_skills), q)
        phases == AnalyzeDependencies(CreatePhases(tasks, workflow))
    IN [created |-> TRUE, id |-> GenerateId(q, created_at), query |-> q,
        workflow |-> workflow, phases |-> phases,
        selected_agents |-> Assigned(tasks), selected_skills |-> matched_skills,
        complexity_score |-> complexity_score,
        estimated_time_minutes |-> SumMinutes(AllTasks(phases)),
        created_at |-> created_at]

NotAsked == [asked |-> FALSE, tasks |-> <<>>]

CreatePlan(complexity_score, matched_skills, is_parallel, is_collaborative, created_at) ==
    LET p == NewPlan(query, complexity_score, matched_skills, is_parallel,
                     is_collaborative, created_at)
    IN /\ plan' = p
       /\ plans' = DictPut(plans, p.id, p)
       /\ next_tasks' = NotAsked
       /\ returned' = Append(returned, p)

DepsSatisfied_some(task, completed_ids) ==
    task.blocked_by = <<>> \/ \E dep \in Range(task.blocked_by) : dep \in completed_ids

\* all(dep in completed_ids for dep in task.blocked_by)
DepsSatisfied(task, completed_ids) ==
    \A dep \in Range(task.blocked_by) : dep \in completed_ids

ReadyTasks_unblocked(tasks, completed_ids) ==
    LET Ready(t) == t.status = "pending" /\ t.blocked_by = <<>>
    IN SelectSeq(tasks, Ready)

ReadyTasks(tasks, completed_ids) ==
    LET Ready(t) == t.status = "pending" /\ DepsSatisfied(t, completed_ids)
    IN SelectSeq(tasks, Ready)

\* the sort key (t.priority, t.estimated_minutes), compared as tuples
KeyLess(a, b) ==
    \/ a.priority < b.priority
    \/ a.priority = b.priority /\ a.estimated_minutes < b.estimated_minutes

\* list.sort is stable: a task goes after the tasks whose key is not greater
RECURSIVE InsertByKey(_, _)
InsertByKey(sorted, task) ==
    IF sorted = <<>> THEN <<task>>
    ELSE IF KeyLess(task, Head(sorted)) THEN <<task>> \o sorted
    ELSE <<Head(sorted)>> \o InsertByKey(Tail(sorted), task)

RECURSIVE SortByKey(_)
SortByKey(tasks) ==
    IF tasks = <<>> THEN <<>>
    ELSE InsertByKey(SortByKey(SubSeq(tasks, 1, Len(tasks) - 1)), tasks[Len(tasks)])

CompletedIds_finished(phases) ==
    {t.id : t \in {u \in Range(AllTasks(phases)) : u.status \in {"completed", "failed"}}}

CompletedIds(phases) ==
    {t.id : t \in {u \in Range(AllTasks(phases)) : u.status = "completed"}}

\* ExecutionPlan.progress, in percent
Progress(p) ==
    LET all == AllTasks(p.phases)
    IN IF p.phases = <<>> \/ all = <<>> THEN 0
       ELSE (Cardinality({n \in DOMAIN all : all[n].status = "completed"}) * 100) \div Len(all)

GetNextTasks ==
    /\ plan.created
    /\ next_tasks' = [asked |-> TRUE,
                      tasks |-> SortByKey(ReadyTasks(AllTasks(plan.phases),
                                                     CompletedIds(plan.phases)))]
    /\ UNCHANGED <<plan, plans, returned>>

TaskStatuses == {"pending", "in_progress", "completed", "blocked", "failed"}

\* the executor (or any caller) sets task.status of one task of the plan
SetStatus(i, k, status) ==
    /\ plan.created
    /\ i \in DOMAIN plan.phases
    /\ k \in DOMAIN plan.phases[i].tasks
    /\ plan.phases[i].tasks[k].status # status
    /\ plan' = [plan EXCEPT !.phases[i].tasks[k].status = status]
    /\ plans' = DictPut(plans, plan.id, plan')
    /\ next_tasks' = NotAsked
    /\ UNCHANGED returned

-----------------------------------------------------------------------------
(* The other components at rest.                                           *)

NoDecision == [called |-> FALSE]

NoPlan == [created |-> FALSE]

InitRouter ==
    /\ query = <<>>
    /\ llm_client = "absent"
    /\ store_results = <<>>
    /\ decision = NoDecision

InitPlanner ==
    plan = NoPlan /\ plans = EmptyDict /\ next_tasks = NotAsked /\ returned = <<>>

\* the router and the planner take no step
OthersIdle == UNCHANGED <<routerVars, planVars, sysVars, peerVars>>

-----------------------------------------------------------------------------
(* HybridAISystem: chat() and feedback() over the engine, the router and   *)
(* the memory.  A hint's confidence is an exact fraction, a router's        *)
(* confidence is in tenths.                                                *)

PROMOTION_THRESHOLD == 4

\* _last_result = None
NoResult == [none |-> TRUE, query |-> <<>>, mode |-> "", skills_used |-> <<>>,
             agents_used |-> <<>>]

\* no decision built for the request yet
NoChat == [made |-> FALSE]

EmptyMemory == [session |-> <<>>, short |-> <<>>, long |-> <<>>]

\* no second session has constructed its engine
NoPeer == [open |-> FALSE, feedback_db |-> <<>>, routing_stats |-> EmptyDict,
           learned_patterns |-> <<>>, query_patterns |-> EmptyDict, dirty |-> FALSE]

InitSystem ==
    /\ last_result = NoResult
    /\ feedback_store = <<>>
    /\ memory = EmptyMemory
    /\ history = <<>>
    /\ chat_decision = NoChat
    /\ peer = NoPeer

\* hints["confidence"] > 0.8
HintAccepted(hints) == 10 * hints.confidence.num > 8 * hints.confidence.den

HintDecision_skillOnly(hints) ==
    [made |-> TRUE, raised |-> FALSE, mode |-> "skill_only",
     skills |-> hints.suggested_skills, agents |-> hints.suggested_agents,
     confidence |-> hints.confidence]

\* the decision built from the hint; ExecutionMode(...) raises on an unknown mode
HintDecision(hints) ==
    LET mode == IF hints.suggested_mode \in {"None", ""}
                THEN "skill_only" ELSE hints.suggested_mode
    IN [made |-> TRUE, raised |-> mode \notin ExecutionModes, mode |-> mode,
        skills |-> hints.suggested_skills, agents |-> hints.suggested_agents,
        confidence |-> hints.confidence]

\* the decision route() returned, as chat() holds it
RoutedDecision(d) ==
    [made |-> TRUE, raised |-> d.raised, mode |-> d.mode, skills |-> d.skills,
     agents |-> d.agents, confidence |-> d.confidence]

\* _search_keywords, Korean keywords in Latin letters
SEARCH_KEYWORDS ==
    {"choesin", "latest", "nyuseu", "news", "oneul", "today", "hyeonjae", "current",
     "2024", "2025", "teurendeu", "trend", "chulsi", "release", "balpyo", "announce",
     "gagyeok", "price", "juga", "stock", "hwanyul", "exchange", "nalssi", "weather",
     "geomsaek", "search", "chajajwo", "find"}

NeedsWebSearch(q) == AnyKw(q, SEARCH_KEYWORDS)

\* _execute: the four _execute_* methods; found says whether the search tool
\* returned any result.  _execute_skill_only appends "27-web-search" to a
\* copy of the decision's documents when a search brought results.
Execute(d, q, found) ==
    [none |-> FALSE, query |-> q, mode |-> d.mode,
     skills_used |-> IF d.mode = "skill_only" /\ NeedsWebSearch(q) /\ found
                     THEN Append(d.skills, "27-web-search") ELSE d.skills,
     agents_used |-> IF d.mode = "skill_only" THEN <<>> ELSE d.agents]

\* s[-n:]
LastN(s, n) == IF Len(s) > n THEN SubSeq(s, Len(s) - n + 1, Len(s)) ELSE s

UpdateHistory(h, q, result) ==
    LastN(h \o <<[role |-> "user", content |-> q],
                 [role |-> "assistant", content |-> result]>>, 40)

AddToSession(m, role, content) ==
    [m EXCEPT !.session = LastN(Append(@, [role |-> role, content |-> content]), 20)]

SaveShortTerm(m, result, score) ==
    LET entry == [query |-> result.query, mode |-> result.mode,
                  skills |-> result.skills_used, score |-> score]
    IN [m EXCEPT !.short = Append(@, entry),
                 !.long = IF score # 0 /\ score >= PROMOTION_THRESHOLD
                          THEN Append(@, [query |-> result.query]) ELSE @]

\* a request arrives: nothing has been decided for it
NewRequest(q) ==
    /\ query' = q
    /\ decision' = NoDecision
    /\ chat_decision' = NoChat
    /\ ret' = Returned("request", q, "None")
    /\ hist' = HistNone
    /\ UNCHANGED <<llm_client, store_results, last_result, feedback_store, memory, history>>
    /\ UNCHANGED <<feedback_db, routing_stats, learned_patterns, query_patterns,
                   dirty, auto_save, files, disk_ok>>
    /\ UNCHANGED <<planVars, peerVars>>

\* chat(query) for the request that arrived
Chat ==
    /\ chat_decision = NoChat
    /\ LET hints == Hints(learned_patterns, query)
       IN IF HintAccepted(hints)
          THEN /\ chat_decision' = HintDecision(hints)
               /\ UNCHANGED routerVars
          ELSE /\ Route
               /\ chat_decision' = RoutedDecision(decision')
    /\ IF chat_decision'.raised
       THEN /\ ret' = Returned("chat", query, "raised")
            /\ UNCHANGED <<last_result, memory, history>>
       ELSE \E found \in BOOLEAN :
            LET result == Execute(chat_decision', query, found)
            IN /\ ret' = Returned("chat", query, "result")
               /\ history' = UpdateHistory(history, query, result)
               /\ memory' = AddToSession(AddToSession(memory, "user", query),
                                         "assistant", result)
               /\ last_result' = result
    /\ hist' = HistNone
    /\ UNCHANGED <<feedback_db, routing_stats, learned_patterns, query_patterns,
                   dirty, auto_save, files, disk_ok>>
    /\ UNCHANGED <<planVars, feedback_store, peerVars>>

HasLastResult_always(r) == TRUE

\* self._last_result is not None
HasLastResult(r) == ~r.none

\* feedback(score, comment)
Feedback(score, comment) ==
    IF ~HasLastResult(last_result)
    THEN /\ ret' = Returned("feedback", "", "ValueError")
         /\ hist' = [phase |-> "feedback", mem |-> Mem]
         /\ UNCHANGED <<feedback_db, routing_stats, learned_patterns, query_patterns,
                        dirty, auto_save, files, disk_ok>>
         /\ UNCHANGED <<routerVars, planVars, sysVars, peerVars>>
    ELSE /\ feedback_store' =
                Append(feedback_store,
                       [query |-> last_result.query, skills_used |-> last_result.skills_used,
                        score |-> score, comment |-> comment, mode |-> last_result.mode,
                        agents_used |-> last_result.agents_used])
         /\ RecordFeedback(last_result, comment, score)
         /\ memory' = SaveShortTerm(memory, last_result, score)
         /\ UNCHANGED <<routerVars, planVars, last_result, history, chat_decision, peerVars>>

-----------------------------------------------------------------------------
(* Specification Spec: the feedback write path.  Any feedback score for   *)
(* either of two execution results, with auto-save switched on and off.   *)

\* the execution results feedback is given on
R1 == [query |-> <<"lora", "paintyuning", "bangbeop">>,
       mode |-> "skill_only",
       skills_used |-> <<"03-fine-tuning">>,
       agents_used |-> <<>>]

R2 == [query |-> <<"model", "API", "guhyeon">>,
       mode |-> "skill_agent",
       skills_used |-> <<"03-fine-tuning", "01-model-architecture">>,
       agents_used |-> <<"backend-developer">>]

\* R2's documents in the other order, another query
R2s == [query |-> <<"model", "a", "teseuteu">>,
        mode |-> "skill_agent",
        skills_used |-> <<"01-model-architecture", "03-fine-tuning">>,
        agents_used |-> <<"qa-expert">>]

\* R1's documents, another query
R3 == [query |-> <<"lora", "mwoya?">>,
       mode |-> "skill_only",
       skills_used |-> <<"03-fine-tuning">>,
       agents_used |-> <<>>]

Scores == 1..5

MaxFeedback == 3

Init == InitEvolution /\ InitRouter /\ InitPlanner /\ InitSystem

Next ==
    \/ \E r \in {R1, R2}, s \in Scores :
            Len(feedback_db) < MaxFeedback /\ RecordFeedback(r, "", s) /\ OthersIdle
    \/ \E b \in BOOLEAN : SetAutoSave(b) /\ OthersIdle
    \/ Save("state") /\ OthersIdle

Spec == Init /\ [][Next]_vars

\* C2: every record_feedback call, whatever the score, leaves the engine dirty
\* when auto-save is off and, when auto-save is on, has written a state file
\* whose feedback log is the in-memory log, the record just appended included.
C2_FeedbackMarksDirtyOrSaves ==
    ret.op = "record_feedback" =>
        IF auto_save
        THEN /\ files["state"].kind = "json"
             /\ files["state"].data.feedback_db = feedback_db
        ELSE dirty

-----------------------------------------------------------------------------
(* Specification SpecLearn: pattern learning over a longer feedback log.   *)

LearnInputs == {<<R1, 5>>, <<R1, 4>>, <<R1, 2>>, <<R3, 5>>, <<R2, 5>>, <<R2s, 5>>}

MaxLearnFeedback == 6

InitLearn ==
    /\ InitTables
    /\ dirty = FALSE
    /\ auto_save = FALSE
    /\ files = [p \in Paths |-> MissingFile]
    /\ disk_ok = TRUE
    /\ ret = Returned("set_auto_save", "", "None")
    /\ hist = HistNone
    /\ InitRouter /\ InitPlanner /\ InitSystem

NextLearn ==
    \E in \in LearnInputs :
        Len(feedback_db) < MaxLearnFeedback /\ RecordFeedback(in[1], "", in[2]) /\ OthersIdle

SpecLearn == InitLearn /\ [][NextLearn]_vars

LearnKeys == {PatternKey(in[1].skills_used) : in \in LearnInputs}

\* the logged record_feedback calls on document set D with a score in S
KeyCount(D, S) ==
    Cardinality({i \in DOMAIN feedback_db :
                    /\ PatternKey(feedback_db[i].skills_used) = D
                    /\ feedback_db[i].score \in S})

HasPattern(D) == \E i \in DOMAIN learned_patterns : learned_patterns[i].pattern_key = D

\* C1: from an empty engine, while fewer than five score-5 feedbacks have been
\* given on a document set D (and none with score 4), no LearnedPattern for D
\* exists; from the fifth on one exists if and only if at least 0.8 of the
\* five buffered samples have a score >= 4.
C1_PatternGate ==
    \A D \in LearnKeys :
        KeyCount(D, {4}) = 0 =>
            /\ KeyCount(D, {5}) < 5 => ~HasPattern(D)
            /\ KeyCount(D, {5}) >= 5 =>
                /\ Len(query_patterns[D]) = 5
                /\ HasPattern(D) <=>
                      10 * SuccessCount([i \in 1..5 |-> query_patterns[D][i].score]) >= 8 * 5

\* the fifth score-5 feedback on R1's documents has just created their pattern
C1_LearnedAtFifth ==
    /\ KeyCount(<<"03-fine-tuning">>, {5}) = 5
    /\ KeyCount(<<"03-fine-tuning">>, {4}) = 0
    /\ feedback_db[Len(feedback_db)].score = 5
    /\ feedback_db[Len(feedback_db)].skills_used = <<"03-fine-tuning">>
    /\ HasPattern(<<"03-fine-tuning">>)

\* every learned pattern has success rate 1.0 and holds only scores of 4 or
\* more, and so does every pending buffer
OnlySuccessesLearned ==
    /\ \A i \in DOMAIN learned_patterns :
        /\ learned_patterns[i].success_rate = 100
        /\ \A k \in DOMAIN learned_patterns[i].success_scores :
                learned_patterns[i].success_scores[k] >= 4
    /\ \A key \in DOMAIN query_patterns :
        \A k \in DOMAIN query_patterns[key] : query_patterns[key][k].score >= 4

\* a step keeps every learned pattern, with its key and its success rate
PatternsKept ==
    \A i \in DOMAIN learned_patterns :
        /\ i \in DOMAIN learned_patterns'
        /\ learned_patterns'[i].pattern_key = learned_patterns[i].pattern_key
        /\ learned_patterns'[i].success_rate = learned_patterns[i].success_rate

\* C25: every learned pattern created through record_feedback on an empty
\* engine has success rate exactly 1.0 and keeps it: only feedback scored 4
\* or more is buffered or merged, and no later feedback, low scores for the
\* same document set included, changes the rate or removes the pattern.
C25_SuccessRateAlwaysOne == []OnlySuccessesLearned /\ [][PatternsKept]_vars

\* a pattern learned from five successes, one of them at exactly 4, followed
\* by a low-score feedback for the same document set
C25_LowScoreAfterLearning ==
    /\ Len(learned_patterns) = 1
    /\ Len(feedback_db) = 6
    /\ feedback_db[6].score = 2
    /\ PatternKey(feedback_db[6].skills_used) = learned_patterns[1].pattern_key
    /\ \E k \in DOMAIN learned_patterns[1].success_scores :
            learned_patterns[1].success_scores[k] = 4
    /\ learned_patterns[1].success_rate = 100

-----------------------------------------------------------------------------
(* Specification SpecStats: record_feedback calls on an empty engine, for  *)
(* results that share documents, one of them naming a document twice.      *)

\* a result whose document list names one document twice
RTwice == [query |-> <<"lora", "tuning">>,
           mode |-> "parallel",
           skills_used |-> <<"03-fine-tuning", "03-fine-tuning">>,
           agents_used |-> <<"backend-developer", "qa-expert">>]

StatResults == {R1, R2, RTwice}

StatScores == 2..5

MaxStatFeedback == 3

NextStats ==
    \E result \in StatResults, score \in StatScores :
        /\ Len(feedback_db) < MaxStatFeedback
        /\ RecordFeedback(result, "", score)
        /\ OthersIdle

SpecStats == InitLearn /\ [][NextStats]_vars

\* the places <<record, position>> of the log where document d is named
Occurrences(d) ==
    LET places == UNION {{i} \X DOMAIN feedback_db[i].skills_used : i \in DOMAIN feedback_db}
    IN {o \in places : feedback_db[o[1]].skills_used[o[2]] = d}

LoggedDocuments == UNION {Range(feedback_db[i].skills_used) : i \in DOMAIN feedback_db}

RECURSIVE SumCounts(_)
SumCounts(counts) ==
    IF DOMAIN counts = {} THEN 0
    ELSE LET k == CHOOSE x \in DOMAIN counts : TRUE
         IN counts[k] + SumCounts([x \in DOMAIN counts \ {k} |-> counts[x]])

StatsMatchLog ==
    /\ DOMAIN routing_stats = LoggedDocuments
    /\ \A d \in DOMAIN routing_stats :
        LET stats == routing_stats[d]
        IN /\ stats.total = Cardinality(Occurrences(d))
           /\ stats.total = Len(stats.scores)
           /\ stats.total = SumCounts(stats.modes)
           /\ stats.success = Cardinality({o \in Occurrences(d) : feedback_db[o[1]].score >= 4})
           /\ 0 <= stats.success /\ stats.success <= stats.total

LogGrowsByOne ==
    /\ Len(feedback_db') = Len(feedback_db) + 1
    /\ SubSeq(feedback_db', 1, Len(feedback_db)) = feedback_db

\* C20: after any sequence of record_feedback calls on an empty engine, for
\* every document d, total[d] is the number of occurrences of d in the
\* documents of the logged records, the length of scores[d] and the sum of
\* the per-mode counts, and success[d] is the number of those occurrences
\* with a score of 4 or more; every call adds exactly one record to the log
\* and leaves the earlier records as they were.
C20_StatsCountOccurrences == []StatsMatchLog /\ [][LogGrowsByOne]_vars

\* three calls that name one document four times, in three modes, twice
\* with a score of 4 or more, once at exactly 4
C20_DocumentNamedTwice ==
    /\ Len(feedback_db) = 3
    /\ "03-fine-tuning" \in DOMAIN routing_stats
    /\ routing_stats["03-fine-tuning"].total = 4
    /\ routing_stats["03-fine-tuning"].success = 2
    /\ Cardinality(DOMAIN routing_stats["03-fine-tuning"].modes) = 3
    /\ \E i \in DOMAIN feedback_db : feedback_db[i].score = 4
    /\ \E i \in DOMAIN feedback_db : feedback_db[i].score = 2

-----------------------------------------------------------------------------
(* Specification SpecGate: an engine that loads a state file written       *)
(* outside it, whose pending buffer holds samples scored below 4, and then *)
(* records feedback for the same document set.                             *)

GateSample(score) ==
    [query |-> <<"lora">>, keywords |-> PyList(<<"lora">>), score |-> score,
     mode |-> "skill_only", agents |-> <<>>]

\* two successful and two failed samples for R1's document set
ForeignPending ==
    [key \in {PatternKey(R1.skills_used)} |->
        <<GateSample(5), GateSample(5), GateSample(2), GateSample(2)>>]

\* the environment puts a state file into the persistence directory
PlaceStateFile ==
    /\ files["state"].kind = "missing"
    /\ files' = [files EXCEPT !["state"] =
                    JsonFile([EmptyData EXCEPT !.query_patterns = ForeignPending])]
    /\ ret' = Returned("place", "state", "None")
    /\ hist' = HistNone
    /\ UNCHANGED <<feedback_db, routing_stats, learned_patterns, query_patterns,
                   dirty, auto_save, disk_ok>>

GateScores == {2, 5}

MaxGateFeedback == 6

NextGate ==
    \/ PlaceStateFile /\ OthersIdle
    \/ feedback_db = <<>> /\ Load("state") /\ OthersIdle
    \/ \E score \in GateScores :
            /\ Len(feedback_db) < MaxGateFeedback
            /\ RecordFeedback(R1, "", score) /\ OthersIdle

SpecGate == InitLearn /\ [][NextGate]_vars

\* success_rate < 0.8 for the samples of a pending buffer
BelowGate(samples) ==
    10 * Cardinality({i \in DOMAIN samples : samples[i].score >= 4}) < 8 * Len(samples)

\* no learned pattern holds a sample scored below 4
NoFailedSampleLearned ==
    \A i \in DOMAIN learned_patterns :
        \A k \in DOMAIN learned_patterns[i].success_scores :
            learned_patterns[i].success_scores[k] >= 4

-----------------------------------------------------------------------------
(* Specification SpecRoundTrip: backup, clear and restore_from_backup      *)
(* around feedback writes, auto-save off.                                  *)

RoundTripInputs == {<<R1, 5>>, <<R2s, 4>>}

MaxRoundTripFeedback == 6

NextRoundTrip ==
    \/ \E in \in RoundTripInputs :
            /\ Len(feedback_db) < MaxRoundTripFeedback
            /\ RecordFeedback(in[1], "", in[2]) /\ OthersIdle
    \/ Backup /\ OthersIdle
    \/ Save("snapshot") /\ OthersIdle
    \/ Clear /\ OthersIdle
    \/ RestoreFromBackup /\ OthersIdle

SpecRoundTrip == InitLearn /\ [][NextRoundTrip]_vars

\* C3: after a snapshot was saved, the engine cleared and the snapshot
\* restored, restore_from_backup has returned true and the feedback log, the
\* per-document stats, the learned patterns (keywords as sets) and the pending
\* buffers are what they were when the snapshot was saved, before clear().
C3_RoundTrip ==
    hist.phase = "restored" =>
        /\ ret = Returned("load", "snapshot", "True")
        /\ Mem = hist.mem

\* a restored engine that holds a learned pattern of several keywords and a
\* pending buffer of another document set
C3_RestoredPatterns ==
    /\ hist.phase = "restored"
    /\ Len(feedback_db) = 6
    /\ \E i \in DOMAIN learned_patterns :
            /\ learned_patterns[i].query_keywords.py = "set"
            /\ Cardinality(learned_patterns[i].query_keywords.set) >= 2
    /\ \E D \in DOMAIN query_patterns : ~HasPattern(D)

-----------------------------------------------------------------------------
(* Specification SpecLoad: load() of the default state file, which the     *)
(* environment may delete or damage after it was saved.                    *)

LoadInputs == {<<R1, 5>>, <<R2, 2>>}

Damages == {"delete", "truncate", "not_object", "bad_pattern"}

MaxLoadFeedback == 2

NextLoad ==
    \/ \E in \in LoadInputs :
            /\ Len(feedback_db) < MaxLoadFeedback
            /\ \A D \in DOMAIN query_patterns : Len(query_patterns[D]) < MaxLoadFeedback
            /\ RecordFeedback(in[1], "", in[2]) /\ OthersIdle
    \/ Save("state") /\ OthersIdle
    \/ Load("state") /\ OthersIdle
    \/ \E how \in Damages : DamageFile("state", how) /\ OthersIdle

SpecLoad == InitLearn /\ [][NextLoad]_vars

\* a file load() cannot take: missing, unparseable, or with a malformed section
Corrupt(f) ==
    \/ f.kind = "missing"
    \/ Unreadable(f)
    \/ \E i \in DOMAIN f.data.learned_patterns : ~f.data.learned_patterns[i].obj

\* C4: load() on a missing or corrupt state file has returned false and the
\* feedback log, stats, learned patterns and pending buffers are what they
\* were before the call.
C4_LoadCorruptLeavesState ==
    (hist.phase = "loaded" /\ Corrupt(files["state"])) =>
        /\ ret = Returned("load", "state", "False")
        /\ Mem = hist.mem

-----------------------------------------------------------------------------
(* Specification SpecRouter: route() on every query of up to MaxQueryLen   *)
(* tokens, for every behaviour of the LLM collaborator and of the store.   *)

RouteVocab == {"hago", "and", "geomto", "seolgye", "guhyeon", "mwoya?", "lora"}

MaxQueryLen == 4

StoreResults == {<<>>, <<"15-rag">>}

InitRoute ==
    /\ InitEvolution
    /\ InitPlanner /\ InitSystem
    /\ query \in SeqsUpTo(RouteVocab, MaxQueryLen)
    /\ llm_client \in LLMBehaviours
    /\ store_results \in StoreResults
    /\ decision = NoDecision

NextRoute == Route /\ UNCHANGED <<evoVars, planVars, sysVars, peerVars>>

SpecRouter == InitRoute /\ [][NextRoute]_vars

\* C5: route() has returned a decision and not raised, whatever the LLM
\* collaborator does; when the collaborator is absent, raises, or gives an
\* unparseable reply or a reply with an unknown mode, the decision is the
\* keyword-based one, unchanged.
C5_RouteNeverRaises ==
    decision.called =>
        /\ ~decision.raised
        /\ llm_client \in {"absent", "raising", "unparseable", "bad_mode"} =>
                decision = KeywordDecision(query, store_results)

\* route() has returned the keyword decision at the lowest confidence while
\* an LLM collaborator that answers with an unknown mode is configured
C5_LowConfidenceBadModeClient ==
    /\ decision.called /\ ~decision.raised
    /\ llm_client = "bad_mode"
    /\ decision.confidence = LLM_ROUTING_THRESHOLD
    /\ decision = KeywordDecision(query, store_results)

\* C6: the confidence of a returned decision is within [0.5, 1.0] when the
\* LLM fallback did not replace the decision, and exactly 0.8 when it did.
C6_ConfidenceRange ==
    (decision.called /\ ~decision.raised) =>
        IF decision.replaced THEN decision.confidence = 8
        ELSE decision.confidence >= 5 /\ decision.confidence <= 10

\* decisions at both ends of the range the keyword path produces: 0.5 for a
\* query with no document and no indicator, and the highest value 0.9
C6_ConfidenceAtLowerEnd ==
    /\ decision.called /\ ~decision.replaced
    /\ llm_client = "ok"
    /\ decision.confidence = 5
    /\ decision.skills = <<>>

\* C7: on the keyword path the mode is PARALLEL if is_parallel, else
\* MULTI_AGENT if is_collaborative, else SKILL_AGENT if score >= 0.3, else
\* SKILL_ONLY.
C7_ModePriority ==
    (decision.called /\ ~decision.raised /\ ~decision.replaced) =>
        decision.mode =
            IF decision.complexity.is_parallel THEN "parallel"
            ELSE IF decision.complexity.is_collaborative THEN "multi_agent"
            ELSE IF decision.complexity.score >= 30 THEN "skill_agent"
            ELSE "skill_only"

\* a query that is both parallel and collaborative has been routed PARALLEL
C7_ParallelBeatsCollaborative ==
    /\ decision.called /\ ~decision.replaced
    /\ decision.complexity.is_parallel
    /\ decision.complexity.is_collaborative
    /\ decision.mode = "parallel"

\* C17: a query that matches a simple-question pattern and is neither
\* parallel nor collaborative has a complexity score of at most 0.25,
\* whatever implementation or design keywords it contains, and route() has
\* returned mode SKILL_ONLY with an empty persona list.
C17_SimpleQuestionClamped ==
    (/\ decision.called
     /\ query # <<>> /\ query[Len(query)] = "mwoya?"
     /\ ~decision.complexity.is_parallel
     /\ ~decision.complexity.is_collaborative) =>
        /\ decision.complexity.score <= 25
        /\ decision.mode = "skill_only"
        /\ decision.agents = <<>>

\* a simple question that names an implementation and a design keyword,
\* which without the clamp would score 0.5, has been routed at exactly 0.25
C17_ClampedImplementationQuestion ==
    /\ decision.called
    /\ query # <<>> /\ query[Len(query)] = "mwoya?"
    /\ decision.complexity.indicators.implementation > 0
    /\ decision.complexity.indicators.design > 0
    /\ ~decision.complexity.is_parallel
    /\ ~decision.complexity.is_collaborative
    /\ decision.complexity.score = 25
    /\ decision.mode = "skill_only"

-----------------------------------------------------------------------------
(* Specification SpecAnalyze: the plan-analysis endpoint, which routes the *)
(* query and creates a plan from the decision's complexity analysis.       *)

\* analyze_query without force_complexity
AnalyzeQuery ==
    /\ ~plan.created
    /\ Route
    /\ LET complexity == decision'.complexity
       IN CreatePlan(complexity.score, decision'.skills, complexity.is_parallel,
                     complexity.is_collaborative, 1)
    /\ UNCHANGED <<evoVars, sysVars, peerVars>>

NextAnalyze == AnalyzeQuery

SpecAnalyze == InitRoute /\ [][NextAnalyze]_vars

\* C28: whenever the router's analysis of the query has is_parallel, the
\* plan the endpoint creates from that analysis has the parallel workflow
\* and a single phase.
C28_RouterPlannerAgree ==
    (plan.created /\ decision.called /\ decision.complexity.is_parallel) =>
        /\ plan.workflow = "parallel"
        /\ Len(plan.phases) = 1

-----------------------------------------------------------------------------
(* Specification SpecAgents: route() on the queries that decide the        *)
(* persona list: a lead-in that sets the mode, followed by any choice of   *)
(* the words the persona selectors look for.                               *)

LeadIns == {<<>>, <<"guhyeon">>, <<"seolgye">>, <<"hago", "hago">>,
            <<"seolgye", "geomto">>, <<"gujo", "geomto">>,
            <<"gujo", "geomto", "guhyeon">>,
            <<"seolgye", "geomto", "hago", "hago">>}

AgentWords == <<"API", "frontend", "teseuteu", "munseo", "deploy", "model">>

AgentQuery(lead, chosen) ==
    LET Chosen(t) == t \in chosen
    IN lead \o SelectSeq(AgentWords, Chosen)

InitAgents ==
    /\ InitEvolution
    /\ InitPlanner /\ InitSystem
    /\ \E lead \in LeadIns, chosen \in SUBSET Range(AgentWords) :
            query = AgentQuery(lead, chosen)
    /\ llm_client \in LLMBehaviours
    /\ store_results \in StoreResults
    /\ decision = NoDecision

SpecAgents == InitAgents /\ [][NextRoute]_vars

Distinct(s) == \A i, j \in DOMAIN s : s[i] = s[j] => i = j

\* C18: on the keyword path the persona list follows the mode: 2 to 4
\* distinct personas for PARALLEL; exactly 2 for MULTI_AGENT, the architect
\* first and the security reviewer second when the query holds both the
\* design and the review keyword; exactly 1 for SKILL_AGENT; none for
\* SKILL_ONLY.
C18_PersonasFollowMode ==
    (decision.called /\ ~decision.raised /\ ~decision.replaced) =>
        CASE decision.mode = "parallel" ->
                /\ Len(decision.agents) \in 2..4
                /\ Distinct(decision.agents)
          [] decision.mode = "multi_agent" ->
                /\ Len(decision.agents) = 2
                /\ ("seolgye" \in Range(query) /\ "geomto" \in Range(query)) =>
                        decision.agents = <<"system-architect", "security-reviewer">>
          [] decision.mode = "skill_agent" -> Len(decision.agents) = 1
          [] decision.mode = "skill_only" -> decision.agents = <<>>

\* a parallel query that names the words of all five personas has been
\* routed with the first four of them
C18_FivePersonasCutToFour ==
    /\ decision.called /\ ~decision.replaced
    /\ decision.mode = "parallel"
    /\ {"API", "frontend", "teseuteu", "munseo", "deploy"} \subseteq Range(query)
    /\ decision.agents = <<"backend-developer", "frontend-developer", "qa-expert", "tech-writer">>

-----------------------------------------------------------------------------
(* Specification SpecMatch: KeywordMatcher.match on every query of up to   *)
(* MaxMatchLen tokens, for every max_results up to MaxResults.             *)

MatchVocab == {"model", "lora", "paintyuning", "tuning", "deploy", "frontend", "bangbeop"}

MaxMatchLen == 4

MaxResults == 4

InitMatch ==
    /\ InitEvolution
    /\ InitPlanner /\ InitSystem
    /\ query \in SeqsUpTo(MatchVocab, MaxMatchLen)
    /\ llm_client = "absent"
    /\ store_results = <<>>
    /\ decision = NoDecision

MatchCall(max_results) ==
    /\ ret' = Returned("match", max_results, Match(query, max_results))
    /\ hist' = HistNone
    /\ UNCHANGED <<feedback_db, routing_stats, learned_patterns, query_patterns,
                   dirty, auto_save, files, disk_ok>>
    /\ UNCHANGED <<routerVars, planVars, sysVars, peerVars>>

NextMatch == \E max_results \in 0..MaxResults : MatchCall(max_results)

SpecMatch == InitMatch /\ [][NextMatch]_vars

\* the place of a document id in KEYWORD_MAP
MapIndex(skill_id) == CHOOSE i \in DOMAIN KEYWORD_MAP : KEYWORD_MAP[i].skill_id = skill_id

IsPrefix(s, t) == Len(s) <= Len(t) /\ s = SubSeq(t, 1, Len(s))

\* C19: match(query, max_results) has returned at most max_results pairs,
\* each document id at most once and only with a score above 0, in
\* non-increasing score order with equal scores in keyword-map order; the
\* result is a prefix of the full ranking and of the result for
\* max_results + 1.
C19_MatchRanking ==
    ret.op = "match" =>
        LET pairs == ret.val
            full == Match(query, Len(KEYWORD_MAP))
        IN /\ Len(pairs) <= ret.arg
           /\ \A i, j \in DOMAIN pairs : pairs[i].skill_id = pairs[j].skill_id => i = j
           /\ \A i \in DOMAIN pairs : pairs[i].score > 0
           /\ \A i, j \in DOMAIN pairs :
                i < j => \/ pairs[i].score > pairs[j].score
                         \/ /\ pairs[i].score = pairs[j].score
                            /\ MapIndex(pairs[i].skill_id) < MapIndex(pairs[j].skill_id)
           /\ IsPrefix(pairs, full)
           /\ Len(pairs) = Min(ret.arg, Len(full))
           /\ IsPrefix(pairs, Match(query, ret.arg + 1))

\* match() with max_results 3 on a query that hits four documents: three
\* 10-point documents in map order, and the 3-point document, second in the
\* map, ranked last and cut off
C19_TruncatedWithTies ==
    /\ ret.op = "match" /\ ret.arg = 3
    /\ Len(Match(query, Len(KEYWORD_MAP))) = 4
    /\ Match(query, Len(KEYWORD_MAP))[4] = [skill_id |-> "03-fine-tuning", score |-> 3]
    /\ ret.val = <<[skill_id |-> "01-model-architecture", score |-> 10],
                   [skill_id |-> "12-inference-serving", score |-> 10],
                   [skill_id |-> "23-frontend-design-architect", score |-> 10]>>

-----------------------------------------------------------------------------
(* Specification SpecPlanner: one create_plan call on a fresh planner, for *)
(* every query of up to MaxPlanQueryLen tokens.                            *)

PlanVocab == {"hago", "bunseok", "guhyeon", "teseuteu"}

MaxPlanQueryLen == 5

\* complexity_score, is_parallel, is_collaborative: one or two per workflow
PlanArgs == {<<10, FALSE, FALSE>>, <<20, FALSE, FALSE>>, <<35, FALSE, FALSE>>,
             <<50, FALSE, FALSE>>, <<70, FALSE, FALSE>>, <<50, TRUE, FALSE>>,
             <<50, FALSE, TRUE>>, <<40, TRUE, TRUE>>}

InitPlan ==
    /\ InitEvolution
    /\ InitPlanner /\ InitSystem
    /\ query \in SeqsUpTo(PlanVocab, MaxPlanQueryLen)
    /\ llm_client = "absent"
    /\ store_results = <<>>
    /\ decision = NoDecision

NextPlan ==
    \E a \in PlanArgs, skills \in StoreResults :
        /\ ~plan.created
        /\ CreatePlan(a[1], skills, a[2], a[3], 1)
        /\ UNCHANGED <<evoVars, routerVars, sysVars, peerVars>>

SpecPlanner == InitPlan /\ [][NextPlan]_vars

\* the bucket _create_phases puts a category in: 1 analysis, 2 implementation,
\* 3 verification
Bucket(category) ==
    CASE category \in {"investigation", "research", "decision"} -> 1
      [] category \in {"implementation", "refactoring"} -> 2
      [] OTHER -> 3

\* C9: one phase for parallel, simple_query, skill_lookup and single_task;
\* for sequential and spec_driven one phase per non-empty bucket in the order
\* analysis, implementation, verification, ids consecutive from 1, and every
\* phase after the first depends on the phase just before it.
C9_PhaseLayout ==
    plan.created =>
        LET phases == plan.phases
            tasks == AllTasks(phases)
        IN /\ {tasks[k].id : k \in DOMAIN tasks} = 1..Len(tasks)
           /\ Len(tasks) = Len(ExtractTasks(plan.query, plan.selected_skills))
           /\ plan.workflow \in {"parallel", "simple_query", "skill_lookup", "single_task"}
                  => Len(phases) = 1
           /\ plan.workflow \in {"sequential", "spec_driven"} =>
                  /\ Len(phases) = Cardinality({Bucket(tasks[k].category) : k \in DOMAIN tasks})
                  /\ \A i \in DOMAIN phases :
                        /\ phases[i].id = i
                        /\ phases[i].tasks # <<>>
                        /\ \A k \in DOMAIN phases[i].tasks :
                              Bucket(phases[i].tasks[k].category)
                                  = Bucket(phases[i].tasks[1].category)
                        /\ phases[i].dependencies = IF i = 1 THEN <<>> ELSE <<i - 1>>
                        /\ i > 1 => Bucket(phases[i - 1].tasks[1].category)
                                        < Bucket(phases[i].tasks[1].category)

\* a spec_driven plan whose tasks span the three buckets has three phases
C9_ThreePhases ==
    /\ plan.created
    /\ plan.workflow = "spec_driven"
    /\ Len(plan.phases) = 3
    /\ plan.phases[3].dependencies = <<2>>

-----------------------------------------------------------------------------
(* Specification SpecWorkflow: one create_plan call for every complexity   *)
(* at and next to the thresholds, with every choice of the two flags.      *)

WorkflowVocab == {"bunseok", "guhyeon"}

MaxWorkflowQueryLen == 2

\* complexity scores in hundredths: each threshold, the value just below it,
\* and both ends of the range
Complexities == {0, 19, 20, 34, 35, 49, 50, 69, 70, 100}

InitWorkflow ==
    /\ InitEvolution
    /\ InitPlanner /\ InitSystem
    /\ query \in SeqsUpTo(WorkflowVocab, MaxWorkflowQueryLen)
    /\ llm_client = "absent"
    /\ store_results = <<>>
    /\ decision = NoDecision

\* create_plan, with the arguments of the call kept in ret
NextWorkflow ==
    \E c \in Complexities, is_parallel \in BOOLEAN, is_collaborative \in BOOLEAN :
        /\ ~plan.created
        /\ CreatePlan(c, <<>>, is_parallel, is_collaborative, 1)
        /\ ret' = Returned("create_plan", <<c, is_parallel, is_collaborative>>, "plan")
        /\ UNCHANGED <<feedback_db, routing_stats, learned_patterns, query_patterns,
                       dirty, auto_save, files, disk_ok, hist>>
        /\ UNCHANGED <<routerVars, sysVars, peerVars>>

SpecWorkflow == InitWorkflow /\ [][NextWorkflow]_vars

\* C21: create_plan selects parallel if is_parallel and c >= 0.5; otherwise
\* sequential if is_collaborative and c >= 0.5; otherwise spec_driven for
\* c >= 0.7, sequential for 0.5 <= c < 0.7, single_task for 0.35 <= c < 0.5,
\* skill_lookup for 0.2 <= c < 0.35 and simple_query for c < 0.2; below 0.5
\* the two flags have no effect.
C21_WorkflowSelection ==
    ret.op = "create_plan" =>
        LET c == ret.arg[1]
            is_parallel == ret.arg[2]
            is_collaborative == ret.arg[3]
            by_table == IF c >= 70 THEN "spec_driven"
                        ELSE IF c >= 50 THEN "sequential"
                        ELSE IF c >= 35 THEN "single_task"
                        ELSE IF c >= 20 THEN "skill_lookup"
                        ELSE "simple_query"
        IN /\ plan.created /\ plan.complexity_score = c
           /\ plan.workflow = IF is_parallel /\ c >= 50 THEN "parallel"
                              ELSE IF is_collaborative /\ c >= 50 THEN "sequential"
                              ELSE by_table
           /\ c < 50 => plan.workflow = by_table

\* create_plan with both flags set just below 0.5 has selected single_task
C21_FlagsIgnoredBelowHalf ==
    /\ ret.op = "create_plan"
    /\ ret.arg = <<49, TRUE, TRUE>>
    /\ plan.workflow = "single_task"

-----------------------------------------------------------------------------
(* Specification SpecSchedule: a plan whose task statuses are set in any   *)
(* way, and get_next_tasks() on it.                                        *)

ScheduleQueries ==
    {<<"guhyeon", "hago", "guhyeon", "hago", "bunseok", "and", "guhyeon">>,
     <<"bunseok", "hago", "guhyeon", "hago", "teseuteu">>,
     <<"bunseok", "hago", "bunseok", "hago", "guhyeon">>}

ScheduleArgs == {<<50, TRUE, FALSE>>, <<70, FALSE, FALSE>>}

InitSchedule ==
    /\ InitEvolution
    /\ InitPlanner /\ InitSystem
    /\ query \in ScheduleQueries
    /\ llm_client = "absent"
    /\ store_results = <<>>
    /\ decision = NoDecision

NextSchedule ==
    \/ \E a \in ScheduleArgs :
          /\ ~plan.created
          /\ CreatePlan(a[1], <<>>, a[2], a[3], 1)
          /\ UNCHANGED <<evoVars, routerVars, sysVars, peerVars>>
    \/ \E i \in 1..3, k \in 1..4, status \in TaskStatuses :
          SetStatus(i, k, status) /\ UNCHANGED <<evoVars, routerVars, sysVars, peerVars>>
    \/ GetNextTasks /\ UNCHANGED <<evoVars, routerVars, sysVars, peerVars>>

SpecSchedule == InitSchedule /\ [][NextSchedule]_vars

\* the place of a task in the plan's order of phases and tasks
PlanIndex(task) ==
    CHOOSE n \in DOMAIN AllTasks(plan.phases) : AllTasks(plan.phases)[n].id = task.id

\* C8: get_next_tasks() has returned exactly the pending tasks all of whose
\* blocked_by ids are ids of completed tasks, each once, ordered by priority
\* then estimated_minutes, equal keys in plan order.
C8_NextTasks ==
    next_tasks.asked =>
        LET all == AllTasks(plan.phases)
            result == next_tasks.tasks
            done == {all[n].id : n \in {m \in DOMAIN all : all[m].status = "completed"}}
            ready == {n \in DOMAIN all : /\ all[n].status = "pending"
                                         /\ Range(all[n].blocked_by) \subseteq done}
        IN /\ Range(result) = {all[n] : n \in ready}
           /\ Len(result) = Cardinality(ready)
           /\ \A a, b \in DOMAIN result : a < b =>
                 \/ result[a].priority < result[b].priority
                 \/ /\ result[a].priority = result[b].priority
                    /\ result[a].estimated_minutes < result[b].estimated_minutes
                 \/ /\ result[a].priority = result[b].priority
                    /\ result[a].estimated_minutes = result[b].estimated_minutes
                    /\ PlanIndex(result[a]) < PlanIndex(result[b])

\* get_next_tasks() has put a later, shorter task before an earlier one, kept
\* two equal-keyed tasks in plan order and left out a task that is in progress
C8_SortedWithTie ==
    /\ next_tasks.asked
    /\ Len(next_tasks.tasks) = 3
    /\ [n \in 1..3 |-> next_tasks.tasks[n].id] = <<3, 2, 4>>
    /\ plan.phases[1].tasks[1].status = "in_progress"

-----------------------------------------------------------------------------
(* Specification SpecExecute: an executor that polls get_next_tasks(),     *)
(* starts only tasks of the list it was given, and moves each started task *)
(* to completed or failed.                                                 *)

\* the executor starts one task of the list get_next_tasks() returned; the
\* list it holds is not refreshed by this
StartTask(i, k) ==
    /\ plan.created /\ next_tasks.asked
    /\ i \in DOMAIN plan.phases
    /\ k \in DOMAIN plan.phases[i].tasks
    /\ plan.phases[i].tasks[k].status = "pending"
    /\ \E n \in DOMAIN next_tasks.tasks : next_tasks.tasks[n].id = plan.phases[i].tasks[k].id
    /\ plan' = [plan EXCEPT !.phases[i].tasks[k].status = "in_progress"]
    /\ plans' = DictPut(plans, plan.id, plan')
    /\ UNCHANGED <<next_tasks, returned>>

\* a started task ends, completed or failed
FinishTask(i, k, status) ==
    /\ plan.created
    /\ i \in DOMAIN plan.phases
    /\ k \in DOMAIN plan.phases[i].tasks
    /\ plan.phases[i].tasks[k].status = "in_progress"
    /\ plan' = [plan EXCEPT !.phases[i].tasks[k].status = status]
    /\ plans' = DictPut(plans, plan.id, plan')
    /\ UNCHANGED <<next_tasks, returned>>

PlanRequested ==
    \E a \in ScheduleArgs :
        /\ ~plan.created
        /\ CreatePlan(a[1], <<>>, a[2], a[3], 1)
        /\ UNCHANGED <<evoVars, routerVars, sysVars, peerVars>>

Poll == GetNextTasks /\ UNCHANGED <<evoVars, routerVars, sysVars, peerVars>>

Start ==
    \E i \in 1..3, k \in 1..4 :
        StartTask(i, k) /\ UNCHANGED <<evoVars, routerVars, sysVars, peerVars>>

Complete ==
    \E i \in 1..3, k \in 1..4 :
        FinishTask(i, k, "completed") /\ UNCHANGED <<evoVars, routerVars, sysVars, peerVars>>

Fail ==
    \E i \in 1..3, k \in 1..4 :
        FinishTask(i, k, "failed") /\ UNCHANGED <<evoVars, routerVars, sysVars, peerVars>>

NextExecute ==
    \/ PlanRequested
    \/ Poll
    \/ Start
    \/ Complete
    \/ Fail

SpecExecute == InitSchedule /\ [][NextExecute]_vars

PhaseCompleted(i) ==
    \A k \in DOMAIN plan.phases[i].tasks : plan.phases[i].tasks[k].status = "completed"

PhaseFailed(i) ==
    \E k \in DOMAIN plan.phases[i].tasks : plan.phases[i].tasks[k].status = "failed"

\* the ids get_next_tasks() returns for the plan as it is now
NextTaskIds ==
    Range([n \in DOMAIN ReadyTasks(AllTasks(plan.phases), CompletedIds(plan.phases)) |->
              ReadyTasks(AllTasks(plan.phases), CompletedIds(plan.phases))[n].id])

\* C26: under an executor that starts only tasks returned by get_next_tasks()
\* and only advances statuses, no task of a phase after the first has left
\* pending while a task of the phase before is not completed; and while a
\* task of some phase is failed, every task of every later phase is pending
\* and absent from get_next_tasks().
C26_PhaseGating ==
    plan.created =>
        /\ \A i \in DOMAIN plan.phases : \A k \in DOMAIN plan.phases[i].tasks :
              (i > 1 /\ plan.phases[i].tasks[k].status # "pending") => PhaseCompleted(i - 1)
        /\ \A i \in DOMAIN plan.phases : PhaseFailed(i) =>
              \A j \in DOMAIN plan.phases : \A k \in DOMAIN plan.phases[j].tasks :
                  j > i => /\ plan.phases[j].tasks[k].status = "pending"
                           /\ plan.phases[j].tasks[k].id \notin NextTaskIds
                           /\ (next_tasks.asked =>
                                 \A n \in DOMAIN next_tasks.tasks :
                                     next_tasks.tasks[n].id # plan.phases[j].tasks[k].id)

\* a three-phase plan whose first-phase task failed: the executor polled
\* again and was given nothing, with two phases still pending
C26_FailedPhaseBlocksAll ==
    /\ plan.created
    /\ Len(plan.phases) = 3
    /\ plan.phases[1].tasks[1].status = "failed"
    /\ plan.phases[2].tasks[1].status = "pending"
    /\ plan.phases[3].tasks[1].status = "pending"
    /\ next_tasks.asked
    /\ next_tasks.tasks = <<>>

-----------------------------------------------------------------------------
(* Specification SpecProgress: the executor of SpecExecute when no task    *)
(* fails. It keeps polling, starts a task whenever the list it holds has a  *)
(* pending one, and completes every task it started.                       *)

NextProgress ==
    \/ PlanRequested
    \/ Poll
    \/ Start
    \/ Complete

SpecProgress ==
    /\ InitSchedule
    /\ [][NextProgress]_vars
    /\ WF_vars(Poll)
    /\ WF_vars(Start)
    /\ WF_vars(Complete)

HasStatus(status) ==
    \E n \in DOMAIN AllTasks(plan.phases) : AllTasks(plan.phases)[n].status = status

\* some task is pending and none is in progress: get_next_tasks() is not empty
NeverStarved ==
    (plan.created /\ HasStatus("pending") /\ ~HasStatus("in_progress")) => NextTaskIds # {}

PlanDone ==
    /\ plan.created
    /\ \A n \in DOMAIN AllTasks(plan.phases) : AllTasks(plan.phases)[n].status = "completed"
    /\ Progress(plan) = 100

\* C27: when no task fails or is blocked and the executor keeps starting
\* tasks returned by get_next_tasks() and completes each one it started,
\* every created plan ends with all its tasks completed (progress 1); and
\* get_next_tasks() is never empty while a task is pending and none is in
\* progress.
C27_SchedulingProgress == []NeverStarved /\ (plan.created ~> PlanDone)

\* a three-phase plan run to the end
C27_ThreePhasesDone ==
    /\ PlanDone
    /\ Len(plan.phases) = 3

-----------------------------------------------------------------------------
(* Specification SpecHints: get_routing_hints() on an engine that learns   *)
(* up to two patterns, in either order, from score-5 feedback.             *)

\* a result on R1's documents whose query has three keywords
H1 == [query |-> <<"lora", "paintyuning", "bunseok">>,
       mode |-> "skill_only",
       skills_used |-> <<"03-fine-tuning">>,
       agents_used |-> <<>>]

HintInputs == {H1, R2}

MaxHintFeedback == 10

\* the queries hints are asked for
HintQueries == {<<"lora", "paintyuning", "bunseok">>,
                <<"lora", "paintyuning">>,
                <<"lora", "paintyuning", "bunseok", "teseuteu", "munseo">>,
                <<"lora", "paintyuning", "model", "API">>,
                <<"lora", "model">>,
                <<"lora", "model", "API", "guhyeon">>,
                <<"teseuteu", "mwoya?">>}

NextHints ==
    \/ \E r \in HintInputs :
            Len(feedback_db) < MaxHintFeedback /\ RecordFeedback(r, "", 5) /\ OthersIdle
    \/ \E q \in HintQueries : GetRoutingHints(q) /\ OthersIdle

SpecHints == InitLearn /\ [][NextHints]_vars

\* the keywords query q shares with learned pattern i, and all of both
HintCommon(q, i) == ExtractKeywords(q) \cap learned_patterns[i].query_keywords.set

HintUnion(q, i) == ExtractKeywords(q) \cup learned_patterns[i].query_keywords.set

\* pattern i's Jaccard similarity to q times its success rate is above / at
\* least that of pattern j (a pattern sharing no keyword scores 0)
ScoresAbove(q, i, j) ==
    /\ HintCommon(q, i) # {}
    /\ \/ HintCommon(q, j) = {}
       \/ Cardinality(HintCommon(q, i)) * learned_patterns[i].success_rate
                * Cardinality(HintUnion(q, j))
            > Cardinality(HintCommon(q, j)) * learned_patterns[j].success_rate
                * Cardinality(HintUnion(q, i))

\* pattern i's score for q is above 0.3
ScoreAboveThreshold(q, i) ==
    10 * Cardinality(HintCommon(q, i)) * learned_patterns[i].success_rate
        > 3 * 100 * Cardinality(HintUnion(q, i))

\* C12: get_routing_hints(query) returns the learned pattern that maximizes
\* Jaccard(query keywords, pattern keywords) x success_rate, the earliest
\* learned one on ties, with confidence min(1.5 x score, 0.95), exactly when
\* that score is above 0.3; otherwise confidence 0 with no documents, no mode
\* and no personas.  The confidence is 0 or in (0.45, 0.95], and the call
\* leaves the engine's tables as they were.
C12_HintIsBestPattern ==
    ret.op = "get_routing_hints" =>
        LET q == ret.arg
            hint == ret.val
            best == {i \in DOMAIN learned_patterns :
                        /\ \A j \in DOMAIN learned_patterns : ~ScoresAbove(q, j, i)
                        /\ \A j \in 1..(i - 1) : ScoresAbove(q, i, j)}
            c == hint.confidence
        IN /\ Mem = hist.mem
           /\ \/ c.num = 0
              \/ 100 * c.num > 45 * c.den /\ 100 * c.num <= 95 * c.den
           /\ IF \E i \in DOMAIN learned_patterns : ScoreAboveThreshold(q, i)
              THEN \E i \in best :
                      LET p == learned_patterns[i]
                          n == 3 * Cardinality(HintCommon(q, i)) * p.success_rate
                          d == 2 * 100 * Cardinality(HintUnion(q, i))
                      IN /\ hint.suggested_skills = p.skills
                         /\ hint.suggested_mode = p.mode
                         /\ hint.suggested_agents = p.agents
                         /\ hint.matched_pattern = p.pattern_key
                         /\ IF 100 * n <= 95 * d
                            THEN c.num * d = n * c.den
                            ELSE 100 * c.num = 95 * c.den
              ELSE /\ c.num = 0
                   /\ hint.suggested_skills = <<>>
                   /\ hint.suggested_mode = "None"
                   /\ hint.suggested_agents = <<>>

\* two learned patterns score the same 0.4 for the query, and the hint names
\* the one learned first
C12_TieGoesToEarliest ==
    /\ ret.op = "get_routing_hints"
    /\ Len(learned_patterns) = 2
    /\ ScoreAboveThreshold(ret.arg, 1)
    /\ ~ScoresAbove(ret.arg, 1, 2) /\ ~ScoresAbove(ret.arg, 2, 1)
    /\ ret.val.matched_pattern = learned_patterns[1].pattern_key
    /\ 10 * ret.val.confidence.num = 6 * ret.val.confidence.den

-----------------------------------------------------------------------------
(* Specification SpecSystem: requests, chat() and feedback() on a fresh    *)
(* HybridAISystem; the engine learns from the feedback on chat()'s own     *)
(* results.                                                                *)

SystemQueries == {<<"lora", "paintyuning", "bunseok">>,
                  <<"lora", "paintyuning", "bunseok", "guhyeon">>,
                  <<"lora", "paintyuning", "guhyeon", "teseuteu">>}

SystemScores == {2, 5}

MaxChats == 2

MaxSystemFeedback == 5

NextSystem ==
    \/ \E q \in SystemQueries : Len(history) < 2 * MaxChats /\ NewRequest(q)
    \/ Chat
    \/ \E s \in SystemScores : Len(feedback_store) < MaxSystemFeedback /\ Feedback(s, "")

SpecSystem == Init /\ [][NextSystem]_vars

\* C11: when the engine's hint for the request has confidence > 0.8, chat()
\* has decided it without route() being invoked, and the decision's mode,
\* documents and personas are those of the hint; when the confidence is at
\* most 0.8, route() was invoked and the decision is the router's, the hint
\* ignored.
C11_FastPath ==
    ret.op = "chat" =>
        LET hints == Hints(learned_patterns, query)
        IN /\ ret.val = "result"
           /\ IF 10 * hints.confidence.num > 8 * hints.confidence.den
              THEN /\ decision = NoDecision
                   /\ chat_decision.mode = hints.suggested_mode
                   /\ chat_decision.skills = hints.suggested_skills
                   /\ chat_decision.agents = hints.suggested_agents
              ELSE /\ decision.called
                   /\ decision = KeywordDecision(query, store_results)
                   /\ chat_decision.mode = decision.mode
                   /\ chat_decision.skills = decision.skills
                   /\ chat_decision.agents = decision.agents

\* chat() has taken a learned skill_agent pattern for a request on which the
\* router was not invoked
C11_LearnedAgentPattern ==
    /\ ret.op = "chat"
    /\ decision = NoDecision
    /\ chat_decision.mode = "skill_agent"
    /\ chat_decision.agents = <<"backend-developer">>
    /\ last_result.query = query

\* C14: as long as no chat() has completed, no feedback has been recorded: the
\* feedback store, the engine's tables and the memory are empty as
\* constructed; and a feedback() call then has failed with the validation
\* error and left the engine's tables as they were.
C14_FeedbackNeedsResult ==
    /\ history = <<>> =>
            /\ ret.op # "record_feedback"
            /\ feedback_store = <<>>
            /\ Mem = EmptyMem
            /\ memory = EmptyMemory
            /\ last_result = NoResult
    /\ ret.op = "feedback" =>
            /\ ret.val = "ValueError"
            /\ Mem = hist.mem

\* feedback() was called after a request arrived but before any chat()
\* completed, and failed
C14_RejectedBeforeChat ==
    /\ ret.op = "feedback" /\ ret.val = "ValueError"
    /\ history = <<>> /\ query # <<>>
    /\ feedback_store = <<>> /\ feedback_db = <<>>

-----------------------------------------------------------------------------
(* Specification SpecDisk: save() and backup() on a disk that may stop     *)
(* taking writes (no directory can be created, no file written).           *)

MaxDiskFeedback == 3

NextDisk ==
    \/ \E s \in {2, 5} :
            Len(feedback_db) < MaxDiskFeedback /\ RecordFeedback(R1, "", s) /\ OthersIdle
    \/ \E b \in BOOLEAN : SetAutoSave(b) /\ OthersIdle
    \/ \E b \in BOOLEAN : SetDisk(b) /\ OthersIdle
    \/ Save("state") /\ OthersIdle
    \/ Backup /\ OthersIdle

SpecDisk == Init /\ [][NextDisk]_vars

\* C13: a save() or backup() whose write failed has returned false,
\* respectively no path, without raising, and the feedback log, the stats,
\* the learned patterns, the pending buffers and the dirty flag are as they
\* were before the call.
C13_WriteFailureReported ==
    (ret.op \in {"save", "backup"} /\ hist.phase = "failed") =>
        /\ ret.val = IF ret.op = "save" THEN "False" ELSE "None"
        /\ Mem = hist.mem
        /\ dirty = hist.dirty

-----------------------------------------------------------------------------
(* Specification SpecPlans: several create_plan calls on one planner, for  *)
(* requests that agree on their first 50 characters or do not, at          *)
(* timestamps that never go back but may repeat.                           *)

\* 45 characters, the last one a space
LongStart == <<"lora", "paintyuning", "lora", "paintyuning", "lora", "paintyuning",
               "lora", "paintyuning", "lora">>

\* a short request and two of 52 characters that differ in the last word
CacheQueries == {<<"lora", "bunseok">>,
                 LongStart \o <<"lora", "bunseok">>,
                 LongStart \o <<"lora", "guhyeon">>}

CacheArgs == {<<30, FALSE, FALSE>>, <<80, FALSE, FALSE>>}

\* the values of datetime.now().isoformat(), in time order
Timestamps == {1, 2}

MaxPlans == 3

\* get_plan(plan_id)
GetPlan(plan_id) == IF plan_id \in DOMAIN plans THEN plans[plan_id] ELSE NoPlan

NextPlans ==
    \/ \E q \in CacheQueries : Len(returned) < MaxPlans /\ NewRequest(q)
    \/ \E a \in CacheArgs, created_at \in Timestamps :
            /\ Len(returned) < MaxPlans
            /\ query # <<>>
            /\ plan.created => plan.created_at <= created_at
            /\ CreatePlan(a[1], <<>>, a[2], a[3], created_at)
            /\ UNCHANGED <<evoVars, routerVars, sysVars, peerVars>>

SpecPlans == Init /\ [][NextPlans]_vars

\* C15: get_plan(p.id) returns p for every plan p create_plan has returned,
\* whatever create_plan calls came later.
C15_CachedPlanStays ==
    \A i \in DOMAIN returned : GetPlan(returned[i].id) = returned[i]

\* C16: two plans whose queries agree on the first 50 characters and whose
\* created_at is the same have the same id, whatever the rest of the query
\* and the other arguments of create_plan are.
C16_IdFromPrefixAndTime ==
    \A i, j \in DOMAIN returned :
        (/\ Prefix(returned[i].query, 50) = Prefix(returned[j].query, 50)
         /\ returned[i].created_at = returned[j].created_at)
            => returned[i].id = returned[j].id

\* two requests of more than 50 characters that differ in their last word
\* were planned at the same timestamp and got the same id, and so did a
\* repeated call with the same arguments
C16_SameIdDifferentTail ==
    \E i, j, k \in DOMAIN returned :
        /\ i < j /\ j < k
        /\ returned[i].query # returned[j].query
        /\ TextLen(returned[i].query) > 50
        /\ returned[i].id = returned[j].id
        /\ returned[k] = returned[j]

-----------------------------------------------------------------------------
(* Specification SpecSearch: requests that name a web-search keyword, on a *)
(* fresh HybridAISystem whose search tool may or may not find results,     *)
(* with the highest feedback on chat()'s own results.                      *)

SearchQueries == {<<"choesin", "lora">>, <<"choesin", "lora", "paintyuning">>}

MaxSearchChats == 3

MaxSearchFeedback == 10

NextSearch ==
    \/ \E q \in SearchQueries : Len(history) < 2 * MaxSearchChats /\ NewRequest(q)
    \/ Chat
    \/ Len(feedback_store) < MaxSearchFeedback /\ Feedback(5, "")

SpecSearch == Init /\ [][NextSearch]_vars

\* C23: in every routing decision produced for a request, by route() or
\* built from an engine hint on the fast path, the documents list holds no
\* id twice and the personas list holds no id twice.
C23_NoDuplicateIds ==
    /\ (decision.called /\ ~decision.raised) =>
            Distinct(decision.skills) /\ Distinct(decision.agents)
    /\ (chat_decision.made /\ ~chat_decision.raised) =>
            Distinct(chat_decision.skills) /\ Distinct(chat_decision.agents)

-----------------------------------------------------------------------------
(* Specification SpecClean: feedback, save(), backup(), clear() and        *)
(* restore_from_backup() on a working disk, with the dirty flag.           *)

MaxCleanFeedback == 3

NextClean ==
    \/ \E s \in {2, 5} :
            Len(feedback_db) < MaxCleanFeedback /\ RecordFeedback(R1, "", s) /\ OthersIdle
    \/ \E b \in BOOLEAN : SetAutoSave(b) /\ OthersIdle
    \/ Save("state") /\ OthersIdle
    \/ Backup /\ OthersIdle
    \/ Clear /\ OthersIdle
    \/ RestoreFromBackup /\ OthersIdle

SpecClean == Init /\ [][NextClean]_vars

\* the default state file holds the tables of the engine; no file stands for
\* empty tables
StateFileCurrent ==
    IF files["state"].kind = "missing" THEN Mem = EmptyMem
    ELSE files["state"].data = SerializeState(feedback_db, routing_stats,
                                              learned_patterns, query_patterns)

\* C29: whenever is_dirty() is false, the feedback log, the stats, the
\* learned patterns and the pending buffers equal the content of the default
\* state file; clear() and backup() never leave the engine clean over a
\* state file that holds other data.
C29_CleanMeansPersisted == ~dirty => StateFileCurrent

-----------------------------------------------------------------------------
(* Specification SpecShared: two sessions, each with its own engine, on    *)
(* one persistence directory with auto-save on.  The calls of the two      *)
(* sessions are taken one at a time, in any order.                         *)

\* EvolutionEngine(persist_dir) in the second session: empty tables, then
\* load() of the default state file
PeerOpen ==
    LET f == files["state"]
        d == DeserializeState(f.data)
        loaded == ~(f.kind = "missing" \/ Unreadable(f))
    IN /\ ~peer.open
       /\ peer' = [open |-> TRUE,
                   feedback_db |-> IF loaded THEN d.feedback_db ELSE <<>>,
                   routing_stats |-> IF loaded THEN d.routing_stats ELSE EmptyDict,
                   learned_patterns |-> IF loaded THEN d.learned_patterns ELSE <<>>,
                   query_patterns |-> IF loaded /\ ~d.raised THEN d.query_patterns
                                      ELSE EmptyDict,
                   dirty |-> FALSE]
       /\ ret' = Returned("peer_init", "", "None")
       /\ hist' = HistNone
       /\ UNCHANGED <<feedback_db, routing_stats, learned_patterns, query_patterns,
                      dirty, auto_save, files, disk_ok>>
       /\ UNCHANGED <<routerVars, planVars, sysVars>>

\* record_feedback on the second session's engine
PeerRecordFeedback(result, feedback, score) ==
    LET record == [query |-> result.query,
                   mode |-> result.mode,
                   skills_used |-> result.skills_used,
                   agents_used |-> result.agents_used,
                   feedback |-> feedback,
                   score |-> score]
        db1 == Append(peer.feedback_db, record)
        stats1 == UpdateRoutingStats(peer.routing_stats, record)
        learned == IF score >= SUCCESS_SCORE
                   THEN LearnSuccessPattern(peer.learned_patterns, peer.query_patterns, record)
                   ELSE [learned_patterns |-> peer.learned_patterns,
                         query_patterns |-> peer.query_patterns]
        saves == ~ReturnsEarly(score) /\ disk_ok
    IN /\ peer.open
       /\ peer' = [peer EXCEPT !.feedback_db = db1,
                               !.routing_stats = stats1,
                               !.learned_patterns = learned.learned_patterns,
                               !.query_patterns = learned.query_patterns,
                               !.dirty = IF ReturnsEarly(score) THEN @ ELSE ~disk_ok]
       /\ files' = IF saves
                   THEN Saved(files, "state", db1, stats1,
                              learned.learned_patterns, learned.query_patterns)
                   ELSE files
       /\ ret' = Returned("peer_record_feedback", "",
                          IF ReturnsEarly(score) THEN "review" ELSE "None")
       /\ hist' = HistNone
       /\ UNCHANGED <<feedback_db, routing_stats, learned_patterns, query_patterns,
                      dirty, auto_save, disk_ok>>
       /\ UNCHANGED <<routerVars, planVars, sysVars>>

SharedScores == {4, 5}

MaxSharedFeedback == 2

NextShared ==
    \/ \E r \in {R1, R2}, s \in SharedScores :
            Len(feedback_db) < MaxSharedFeedback /\ RecordFeedback(r, "", s) /\ OthersIdle
    \/ PeerOpen
    \/ \E r \in {R1, R2}, s \in SharedScores :
            Len(peer.feedback_db) < MaxSharedFeedback /\ PeerRecordFeedback(r, "", s)

SpecShared == Init /\ [][NextShared]_vars

\* the persisted state file holds the records of this log, and for each
\* document one of them names a stats entry counting at least those records
Persisted(log) ==
    /\ files["state"].kind = "json"
    /\ LET data == files["state"].data
       IN /\ \A i \in DOMAIN log :
                Cardinality({k \in DOMAIN data.feedback_db : data.feedback_db[k] = log[i]})
                    >= Cardinality({k \in DOMAIN log : log[k] = log[i]})
          /\ \A i \in DOMAIN log : \A doc \in Range(log[i].skills_used) :
                /\ doc \in DOMAIN data.routing_stats
                /\ data.routing_stats[doc].total >=
                       Cardinality({k \in DOMAIN log : doc \in Range(log[k].skills_used)})

\* C30: once each of the two sessions has completed a record_feedback call,
\* the persisted state file holds the feedback records of both and the
\* per-document stats of both.
C30_NoFeedbackLost ==
    (feedback_db # <<>> /\ peer.open /\ peer.feedback_db # <<>>) =>
        Persisted(feedback_db) /\ Persisted(peer.feedback_db)

====
